---------------------------- MODULE Spec2Model ----------------------------
(***************************************************************************)
(* A model of the HTML refactoring engine (html-refactor.js): the naming   *)
(* functions, the style and script extractors, the CSS merge, the link     *)
(* injector and processHtmlFile.                                           *)
(*                                                                         *)
(* A JavaScript string is a sequence of one-character strings, so that     *)
(* split, trim, sort, substring and the sanitizing regular expressions are *)
(* computed character by character as the code computes them.  A CSS text  *)
(* is a sequence of blocks (one per comment-plus-rule the code emits).     *)
(***************************************************************************)
EXTENDS Integers, Sequences, FiniteSets, TLC

VARIABLES
    pc,       \* position of the operation under study
    inp,      \* the inputs of a pure function under study
    out,      \* its outputs
    htmlFs,   \* HTML files on disk: path -> document
    cssFs,    \* CSS files on disk: path -> CSS text
    jsFs,     \* JS files on disk: path -> script text
    bakFs,    \* .bak files on disk: path -> document
    distFs,   \* the dist tree: [html: path -> document, js: path -> script text]
    clock,    \* Date.now()
    last      \* what the last processHtmlFile / extractJsFromHtml call did

vars == <<pc, inp, out, htmlFs, cssFs, jsFs, bakFs, distFs, clock, last>>

-----------------------------------------------------------------------------
(* Strings *)

\* The characters of the model in UTF-16 code unit order (the order of
\* Array.prototype.sort and of string comparison).
Ascii ==
    <<"\n", " ", "$", "-", ".", "/",
      "0", "1", "2", "3", "4", "5", "6", "7", "8", "9",
      ":", ";", "A", "B", "Z", "_",
      "a", "b", "c", "d", "e", "f", "h", "i", "j", "l", "m", "n", "o",
      "r", "s", "t", "x", "z">>

Ord(c) == CHOOSE i \in DOMAIN Ascii : Ascii[i] = c

WhiteSpace == {" ", "\n"}

RECURSIVE StrLess(_, _)
StrLess(a, b) ==
    IF b = <<>> THEN FALSE
    ELSE IF a = <<>> THEN TRUE
    ELSE IF Ord(Head(a)) # Ord(Head(b)) THEN Ord(Head(a)) < Ord(Head(b))
    ELSE StrLess(Tail(a), Tail(b))

\* String.prototype.substring(0, n)
Prefix(s, n) == SubSeq(s, 1, IF n < Len(s) THEN n ELSE Len(s))

\* String.prototype.substring(n)
Drop(s, n) == SubSeq(s, n + 1, Len(s))

StartsWith(s, p) == Len(p) <= Len(s) /\ SubSeq(s, 1, Len(p)) = p

EndsWith(s, p) == Len(p) <= Len(s) /\ SubSeq(s, Len(s) - Len(p) + 1, Len(s)) = p

RECURSIVE TrimLeft(_)
TrimLeft(s) ==
    IF s # <<>> /\ Head(s) \in WhiteSpace THEN TrimLeft(Tail(s)) ELSE s

RECURSIVE TrimRight(_)
TrimRight(s) ==
    IF s # <<>> /\ s[Len(s)] \in WhiteSpace
    THEN TrimRight(SubSeq(s, 1, Len(s) - 1))
    ELSE s

\* String.prototype.trim
Trim(s) == TrimLeft(TrimRight(s))

\* String.prototype.split(sep) for a one-character separator
RECURSIVE SplitAcc(_, _, _)
SplitAcc(s, sep, cur) ==
    IF s = <<>> THEN <<cur>>
    ELSE IF Head(s) = sep THEN <<cur>> \o SplitAcc(Tail(s), sep, <<>>)
    ELSE SplitAcc(Tail(s), sep, Append(cur, Head(s)))

Split(s, sep) == SplitAcc(s, sep, <<>>)

\* Array.prototype.join(sep)
RECURSIVE Join(_, _)
Join(parts, sep) ==
    IF parts = <<>> THEN <<>>
    ELSE IF Len(parts) = 1 THEN parts[1]
    ELSE parts[1] \o sep \o Join(Tail(parts), sep)

\* Array.prototype.filter(s => s) on an array of strings
RECURSIVE DropEmpty(_)
DropEmpty(parts) ==
    IF parts = <<>> THEN <<>>
    ELSE IF parts[1] = <<>> THEN DropEmpty(Tail(parts))
    ELSE <<parts[1]>> \o DropEmpty(Tail(parts))

RECURSIVE InsertSorted(_, _)
InsertSorted(x, sorted) ==
    IF sorted = <<>> THEN <<x>>
    ELSE IF StrLess(x, sorted[1]) THEN <<x>> \o sorted
    ELSE <<sorted[1]>> \o InsertSorted(x, Tail(sorted))

\* Array.prototype.sort() with the default (code unit) comparison
RECURSIVE SortStrings(_)
SortStrings(parts) ==
    IF parts = <<>> THEN <<>>
    ELSE InsertSorted(parts[1], SortStrings(Tail(parts)))

\* The decimal digits of a natural number (template literal `${n}`)
RECURSIVE Decimal(_)
Decimal(n) ==
    IF n < 10 THEN <<Ascii[7 + n]>>
    ELSE Append(Decimal(n \div 10), Ascii[7 + (n % 10)])

-----------------------------------------------------------------------------
(* Hashing *)

HexDigits == <<"0", "1", "2", "3", "4", "5", "6", "7", "8", "9",
               "a", "b", "c", "d", "e", "f">>

\* A digest of a string: a deterministic function of its characters alone,
\* computed in two 16-bit halves.
RECURSIVE DigestAcc(_, _, _)
DigestAcc(s, h, mult) ==
    IF s = <<>> THEN h
    ELSE DigestAcc(Tail(s), (h * mult + Ord(Head(s))) % 65536, mult)

RECURSIVE HexOf(_, _)
HexOf(n, digits) ==
    IF digits = 0 THEN <<>>
    ELSE Append(HexOf(n \div 16, digits - 1), HexDigits[(n % 16) + 1])

\* crypto.createHash('sha256').update(s).digest('hex').substring(0, 8): the
\* 32 leading bits of the digest as 8 hexadecimal digits.  The digest stands
\* for SHA-256; like it, it depends on nothing but the string hashed.
Sha256Hex8(s) == HexOf(DigestAcc(s, 5381, 131), 4) \o HexOf(DigestAcc(s, 7, 257), 4)

-----------------------------------------------------------------------------
(* Style normalization and class names *)

TrimEach(parts) == [i \in DOMAIN parts |-> Trim(parts[i])]

\* normalizeStyleString with the sort left out
normalizeStyleString_NoSort(style) ==
    IF style = <<>> THEN <<>>
    ELSE Join(DropEmpty(TrimEach(Split(style, ";"))), <<";">>)

\* normalizeStyleString: split on ';', trim each, drop the empty ones, sort,
\* join with ';'
normalizeStyleString(style) ==
    IF style = <<>> THEN <<>>
    ELSE Join(SortStrings(DropEmpty(TrimEach(Split(style, ";")))), <<";">>)

\* generateClassFromStyle: `css-${hash.substring(0, 8)}`
generateClassFromStyle(normalizedStyle) ==
    <<"c", "s", "s", "-">> \o Sha256Hex8(normalizedStyle)

-----------------------------------------------------------------------------
(* File names *)

Lower == {"a", "b", "c", "d", "e", "f", "g", "h", "i", "j", "k", "l", "m",
          "n", "o", "p", "q", "r", "s", "t", "u", "v", "w", "x", "y", "z"}
Upper == {"A", "B", "C", "D", "E", "F", "G", "H", "I", "J", "K", "L", "M",
          "N", "O", "P", "Q", "R", "S", "T", "U", "V", "W", "X", "Y", "Z"}
Digit == {"0", "1", "2", "3", "4", "5", "6", "7", "8", "9"}

\* FILENAME_SANITIZATION_REGEX = /[^a-zA-Z0-9_.-]/g matches what is not here
FilenameSafeChars == Lower \cup Upper \cup Digit \cup {"_", ".", "-"}

FILENAME_SANITIZATION_REPLACEMENT == "_"

\* str.replace(/_+/g, '_')
RECURSIVE CollapseUnderscores(_)
CollapseUnderscores(s) ==
    IF Len(s) < 2 THEN s
    ELSE IF s[1] = "_" /\ s[2] = "_" THEN CollapseUnderscores(Tail(s))
    ELSE <<s[1]>> \o CollapseUnderscores(Tail(s))

\* sanitizeStringForFilename: unsafe characters become '_', runs of '_' one '_'
sanitizeStringForFilename(str) ==
    IF str = <<>> THEN <<>>
    ELSE CollapseUnderscores(
             [i \in DOMAIN str |-> IF str[i] \in FilenameSafeChars THEN str[i]
                                   ELSE FILENAME_SANITIZATION_REPLACEMENT])

DefaultMaxFilenameLength == 100

MinTruncateLength == 10

\* generateSafeBaseName(originalName, context, config)
generateSafeBaseName(originalName, maxFilenameLength) ==
    LET sanitizedOriginalName == sanitizeStringForFilename(originalName)
        maxLength == IF maxFilenameLength = 0 THEN DefaultMaxFilenameLength
                     ELSE maxFilenameLength
        hash == Sha256Hex8(originalName)
        truncateLength == maxLength - Len(hash) - 1
        actualTruncateLength ==
            LET wanted == IF truncateLength > 0 THEN truncateLength
                          ELSE MinTruncateLength
            IN  IF wanted > MinTruncateLength THEN wanted ELSE MinTruncateLength
    IN  IF Len(sanitizedOriginalName) > maxLength
        THEN Prefix(sanitizedOriginalName, actualTruncateLength) \o <<"_">> \o hash
        ELSE sanitizedOriginalName

\* The index of the last '/' of a path, 0 when it has none
LastSlash(p) ==
    IF \E i \in DOMAIN p : p[i] = "/"
    THEN CHOOSE i \in DOMAIN p : p[i] = "/" /\ \A j \in (i + 1)..Len(p) : p[j] # "/"
    ELSE 0

\* path.basename(p, ext) of a path that does not end in '/': the last
\* component without ext, but '' for a path that is ext itself and the whole
\* component when the component is ext
Basename(p, ext) ==
    LET comp == Drop(p, LastSlash(p))
    IN  IF p = ext THEN <<>>
        ELSE IF EndsWith(comp, ext) /\ comp # ext
             THEN Prefix(comp, Len(comp) - Len(ext))
             ELSE comp

\* path.dirname(p) of a path that does not end in '/'
Dirname(p) ==
    IF LastSlash(p) = 0 THEN <<".">>
    ELSE IF LastSlash(p) = 1 THEN <<"/">>
    ELSE Prefix(p, LastSlash(p) - 1)

\* String(p).replace(/^\/+|\/+$/g, '')
RECURSIVE StripSlashes(_)
StripSlashes(p) ==
    IF p # <<>> /\ Head(p) = "/" THEN StripSlashes(Tail(p))
    ELSE IF p # <<>> /\ p[Len(p)] = "/" THEN StripSlashes(Prefix(p, Len(p) - 1))
    ELSE p

\* The loop over prefixesToOmit: the first prefix that is a directory prefix
\* of the path is cut off, and no other
RECURSIVE OmitPrefix(_, _)
OmitPrefix(path, prefixes) ==
    IF prefixes = <<>> THEN path
    ELSE LET prefixToOmit == StripSlashes(Head(prefixes))
         IN  IF StartsWith(path, prefixToOmit \o <<"/">>)
             THEN Drop(path, Len(prefixToOmit) + 1)
             ELSE OmitPrefix(path, Tail(prefixes))

SlashesToUnderscores(dir) == [i \in DOMAIN dir |-> IF dir[i] = "/" THEN "_" ELSE dir[i]]

HtmlExt == <<".", "h", "t", "m", "l">>

\* cssFileBaseCandidate of generateCssFileBaseName, from the path of the HTML
\* file relative to the project root
CssFileBaseCandidate(relativeHtmlPath, prefixes) ==
    LET effectivePathForNaming == OmitPrefix(relativeHtmlPath, prefixes)
        htmlFileBasePart == Basename(effectivePathForNaming, HtmlExt)
        htmlFileDirPart == Dirname(effectivePathForNaming)
    IN  IF htmlFileDirPart # <<>> /\ htmlFileDirPart # <<".">>
        THEN SlashesToUnderscores(htmlFileDirPart) \o <<"_">> \o htmlFileBasePart
        ELSE htmlFileBasePart

\* generateCssFileBaseName(htmlFilePath, config)
generateCssFileBaseName(relativeHtmlPath, prefixes, maxFilenameLength) ==
    generateSafeBaseName(CssFileBaseCandidate(relativeHtmlPath, prefixes),
                         maxFilenameLength)

-----------------------------------------------------------------------------
(* Documents *)

\* An element of a parsed document, in document order.  An attribute that is
\* absent is the empty string: attr() of an absent and of an empty attribute
\* are both falsy, which is all the code asks of them.
Elem(tag, inHead, text, style, class, src, href) ==
    [tag |-> tag, inHead |-> inHead, text |-> text, style |-> style,
     class |-> class, src |-> src, href |-> href]

Styled(style) == Elem("div", FALSE, <<>>, style, <<>>, <<>>, <<>>)
StyleTag(text) == Elem("style", TRUE, text, <<>>, <<>>, <<>>, <<>>)
ScriptTag(text, src) == Elem("script", FALSE, text, <<>>, <<>>, src, <<>>)
LinkTag(href, inHead) == Elem("link", inHead, <<>>, <<>>, <<>>, <<>>, href)

IsBlank(s) == Trim(s) = <<>>

\* The number of members of S below i: the index cheerio's each() passes
RankIn(S, i) == Cardinality({j \in S : j < i})

\* The document without the elements at the indices in S (cheerio remove)
RECURSIVE RemoveAt(_, _)
RemoveAt(doc, S) ==
    IF doc = <<>> THEN <<>>
    ELSE LET front == RemoveAt(SubSeq(doc, 1, Len(doc) - 1), S)
         IN  IF Len(doc) \in S THEN front ELSE Append(front, doc[Len(doc)])

\* cheerio addClass: the class list gains the name unless it holds it
AddClass(classes, name) ==
    IF \E i \in DOMAIN classes : classes[i] = name THEN classes
    ELSE Append(classes, name)

-----------------------------------------------------------------------------
(* extractCssFromHtml *)

\* One piece of the extracted CSS text: the comment the code writes and the
\* block under it.
StyleTagBlock(from, index, body) ==
    [kind |-> "styleTag", from |-> from, index |-> index, cls |-> <<>>, body |-> body]

RuleBlock(from, cls, body) ==
    [kind |-> "rule", from |-> from, index |-> 0, cls |-> cls, body |-> body]

\* normalizedStyle.replace(/;/g, ';\n  ')
RECURSIVE PrettyPrint(_)
PrettyPrint(s) ==
    IF s = <<>> THEN <<>>
    ELSE IF Head(s) = ";" THEN <<";", "\n", " ", " ">> \o PrettyPrint(Tail(s))
    ELSE <<Head(s)>> \o PrettyPrint(Tail(s))

HasStyleTagContent(e) == e.tag = "style" /\ ~IsBlank(e.text)

HasStyleAttr(e) == e.style # <<>> /\ ~IsBlank(e.style)

\* Step 1: every <style> element with content becomes a block and is removed.
RECURSIVE StyleTagBlocks(_, _, _)
StyleTagBlocks(doc, from, i) ==
    IF i > Len(doc) THEN <<>>
    ELSE IF HasStyleTagContent(doc[i])
         THEN <<StyleTagBlock(from, RankIn({j \in DOMAIN doc : doc[j].tag = "style"}, i),
                              Trim(doc[i].text))>>
              \o StyleTagBlocks(doc, from, i + 1)
         ELSE StyleTagBlocks(doc, from, i + 1)

\* Step 2: the loop over $('[style]'), with styleMap carried along.
\* Returns the rule blocks, the document and the map.
RECURSIVE StyleAttrLoop(_, _, _, _, _)
StyleAttrLoop(doc, from, i, styleMap, css) ==
    IF i > Len(doc) THEN [doc |-> doc, css |-> css, styleMap |-> styleMap]
    ELSE IF ~HasStyleAttr(doc[i]) THEN StyleAttrLoop(doc, from, i + 1, styleMap, css)
    ELSE LET normalizedStyle == normalizeStyleString(doc[i].style)
             seen == normalizedStyle \in DOMAIN styleMap
             className == IF seen THEN styleMap[normalizedStyle]
                          ELSE generateClassFromStyle(normalizedStyle)
             newMap == IF seen THEN styleMap
                       ELSE (normalizedStyle :> className) @@ styleMap
             newCss == IF seen THEN css
                       ELSE Append(css, RuleBlock(from, className,
                                                  PrettyPrint(normalizedStyle)))
             newDoc == [doc EXCEPT ![i].class = AddClass(@, className),
                                   ![i].style = <<>>]
         IN  StyleAttrLoop(newDoc, from, i + 1, newMap, newCss)

\* extractCssFromHtml($, htmlFilePath, htmlFileBaseName)
extractCssFromHtml(doc, htmlFileBaseName) ==
    LET tagIdx == {i \in DOMAIN doc : HasStyleTagContent(doc[i])}
        tagCss == StyleTagBlocks(doc, htmlFileBaseName, 1)
        loop   == StyleAttrLoop(RemoveAt(doc, tagIdx), htmlFileBaseName, 1,
                                <<>>, tagCss)
    IN  [cssContent  |-> loop.css,
         cssModified |-> tagIdx # {} \/ loop.doc # RemoveAt(doc, tagIdx),
         doc         |-> loop.doc]

-----------------------------------------------------------------------------
(* Paths *)

\* path.join(dir, name) of a directory and a file name
PathJoin(dir, name) == IF dir = <<".">> \/ dir = <<>> THEN name ELSE dir \o <<"/">> \o name

DirParts(dir) == IF dir = <<".">> \/ dir = <<>> THEN <<>> ELSE Split(dir, "/")

\* The number of leading components two paths share
RECURSIVE CommonParts(_, _)
CommonParts(a, b) ==
    IF a = <<>> \/ b = <<>> THEN 0
    ELSE IF Head(a) # Head(b) THEN 0
    ELSE 1 + CommonParts(Tail(a), Tail(b))

\* path.relative(fromDir, to) with '/' separators: '..' for each component of
\* fromDir that to leaves, then the rest of to
Relative(fromDir, to) ==
    LET from == DirParts(fromDir)
        dest == Split(to, "/")
        k    == CommonParts(from, dest)
    IN  Join([i \in 1..(Len(from) - k) |-> <<".", ".">>] \o SubSeq(dest, k + 1, Len(dest)),
             <<"/">>)

-----------------------------------------------------------------------------
(* extractJsFromHtml *)

JsExt == <<".", "j", "s">>

\* The test of the collecting loop: no src attribute, a body that is not blank
IsInlineScript(e) == e.tag = "script" /\ e.src = <<>> /\ ~IsBlank(e.text)

\* scriptTagsToProcess: the positions of the inline scripts, in document order
RECURSIVE ScriptTagsToProcess(_, _)
ScriptTagsToProcess(doc, i) ==
    IF i > Len(doc) THEN <<>>
    ELSE IF IsInlineScript(doc[i]) THEN <<i>> \o ScriptTagsToProcess(doc, i + 1)
    ELSE ScriptTagsToProcess(doc, i + 1)

\* originalIndex: the index each() passes, among all <script> elements
OriginalIndex(doc, i) == RankIn({j \in DOMAIN doc : doc[j].tag = "script"}, i)

\* No suffix at all: every script of a document under the document's name
ScriptSuffix_None(doc, items, k) == <<>>

\* The suffix by position among the collected scripts, not among all scripts
ScriptSuffix_MatchOrder(doc, items, k) ==
    IF Len(items) > 1 THEN <<"_", "s">> \o Decimal(k) ELSE <<>>

\* suffix = scriptTagsToProcess.length > 1 ? `_s${item.originalIndex + 1}` : ''
ScriptSuffix(doc, items, k) ==
    IF Len(items) > 1 THEN <<"_", "s">> \o Decimal(OriginalIndex(doc, items[k]) + 1)
    ELSE <<>>

\* The directory the script files of an HTML file go to
JsOutputDir(htmlFilePath, config) ==
    IF config.jsOutputDirStrategy = "centralized"
    THEN StripSlashes(config.jsCentralOutputDir)
    ELSE Dirname(htmlFilePath)

\* The value of the src attribute for a script file
SrcAttrPath(htmlFilePath, jsFileFullPath, jsFileNameForSrcAttr, config) ==
    IF config.jsOutputDirStrategy = "centralized"
    THEN Relative(Dirname(htmlFilePath), jsFileFullPath)
    ELSE jsFileNameForSrcAttr

ConflictMark == <<"-", "c", "o", "n", "f", "l", "i", "c", "t", "-">>

\* `${jsFileNameBase}-conflict-${timestamp}.js`
ConflictFileName(jsFileNameBase, timestamp) ==
    jsFileNameBase \o ConflictMark \o Decimal(timestamp) \o JsExt

JsFileData(sourcePath, content) == [sourcePath |-> sourcePath, content |-> content]

\* What one fs.writeFile did: the path, the content, what was there before,
\* and the element it was made for
WriteRecord(fs, path, content, item) ==
    [path |-> path, content |-> content, existed |-> path \in DOMAIN fs,
     old |-> IF path \in DOMAIN fs THEN fs[path] ELSE <<>>, item |-> item]

\* fs.writeFile(path, content)
WriteFile(fs, path, content) ==
    [q \in DOMAIN fs \cup {path} |-> IF q = path THEN content ELSE fs[q]]

\* The element left as it was: body kept, no src
ScriptTagKept(e, src) == e

\* The element emptied and given its src before the write is known to succeed
ScriptTagExtracted_BeforeWrite(e, src) == [e EXCEPT !.text = <<>>, !.src = src]

\* The element of a script whose write threw: the catch is entered before
\* $scriptTag.html('') and attr('src') are reached
ScriptTagAfterFailure(e, src) == e

\* $scriptTag.html(''); $scriptTag.attr('src', srcAttrPath)
ScriptTagExtracted(e, src) == [e EXCEPT !.text = <<>>, !.src = src]

\* jsFileNameForSrcAttr after the conflict check: the computed name, or, when
\* a file is at the computed path, the conflict name with the clock's reading
JsFileNameToWrite(fs, dir, jsFileNameBase, timestamp) ==
    IF PathJoin(dir, jsFileNameBase \o JsExt) \in DOMAIN fs
    THEN ConflictFileName(jsFileNameBase, timestamp)
    ELSE jsFileNameBase \o JsExt

\* What the loop did for one item: the file name and path it settled on and
\* the src it set (in a dry run: logged)
ItemRecord(item, name, path, src, timestamp) ==
    [item |-> item, name |-> name, path |-> path, src |-> src, at |-> timestamp]

\* The for loop of extractJsFromHtml from its k-th item on.  st holds the
\* document, the files on disk, extractedJsFiles, the writes made, what was
\* done for each item, and the clock.  io.ticks[k] is the time that passes
\* before the k-th item is handled; io.fails is the set of items whose write
\* throws: the catch drops the item's record and leaves its element alone.
RECURSIVE ExtractJsLoop(_, _, _, _, _, _, _, _, _)
ExtractJsLoop(st, orig, items, k, htmlFilePath, safeJsFileBase, config, isDryRun, io) ==
    IF k > Len(items) THEN st
    ELSE
    LET i == items[k]
        scriptContent == Trim(orig[i].text)
        jsFileNameBase == safeJsFileBase \o ScriptSuffix(orig, items, k)
        dir == JsOutputDir(htmlFilePath, config)
        now == st.clock + io.ticks[k]
        computedPath == PathJoin(dir, jsFileNameBase \o JsExt)
        next ==
            IF isDryRun
            THEN [st EXCEPT
                    !.extractedJsFiles = Append(@, JsFileData(computedPath, scriptContent)),
                    !.items = Append(@, ItemRecord(i, jsFileNameBase \o JsExt, computedPath,
                                        SrcAttrPath(htmlFilePath, computedPath,
                                                    jsFileNameBase \o JsExt, config), now)),
                    !.jsModifiedInHtml = TRUE,
                    !.clock = now]
            ELSE
            LET jsFileNameForSrcAttr == JsFileNameToWrite(st.fs, dir, jsFileNameBase, now)
                jsFileFullPath == PathJoin(dir, jsFileNameForSrcAttr)
                srcAttrPath == SrcAttrPath(htmlFilePath, jsFileFullPath,
                                           jsFileNameForSrcAttr, config)
            IN  IF k \in io.fails
                THEN [st EXCEPT !.failed = @ \cup {i}, !.clock = now,
                                !.doc[i] = ScriptTagAfterFailure(@, srcAttrPath)]
                ELSE [st EXCEPT
                        !.fs = WriteFile(@, jsFileFullPath, scriptContent),
                        !.writes = Append(@, WriteRecord(st.fs, jsFileFullPath,
                                                         scriptContent, i)),
                        !.extractedJsFiles = Append(@, JsFileData(jsFileFullPath, scriptContent)),
                        !.items = Append(@, ItemRecord(i, jsFileNameForSrcAttr, jsFileFullPath,
                                                       srcAttrPath, now)),
                        !.doc[i] = ScriptTagExtracted(@, srcAttrPath),
                        !.jsModifiedInHtml = TRUE,
                        !.clock = now]
    IN  ExtractJsLoop(next, orig, items, k + 1, htmlFilePath, safeJsFileBase,
                      config, isDryRun, io)

\* extractJsFromHtml($, htmlFilePath, htmlFileBaseName, config, isDryRun) on
\* the files fs, started at time now
extractJsFromHtml(doc, htmlFilePath, htmlFileBaseName, config, isDryRun, fs, now, io) ==
    LET items == ScriptTagsToProcess(doc, 1)
        start == [doc |-> doc, fs |-> fs, extractedJsFiles |-> <<>>, items |-> <<>>,
                  writes |-> <<>>, failed |-> {}, jsModifiedInHtml |-> FALSE,
                  clock |-> now]
    IN  IF items = <<>> THEN start
        ELSE ExtractJsLoop(start, doc, items, 1, htmlFilePath,
                           generateSafeBaseName(htmlFileBaseName, config.maxFilenameLength),
                           config, isDryRun, io)

-----------------------------------------------------------------------------
(* saveCssFile *)

CssExt == <<".", "c", "s", "s">>

\* '\n\n/* --- Appended styles from HTML Refactor --- */\n'
AppendSeparator ==
    [kind |-> "separator", from |-> <<>>, index |-> 0, cls |-> <<>>, body |-> <<>>]

\* A test that finds nothing anywhere
Includes_Never(hay, needle) == FALSE

\* String.prototype.includes on CSS texts: the blocks of needle, in a row
Includes(hay, needle) ==
    \E k \in 0..(Len(hay) - Len(needle)) : SubSeq(hay, k + 1, k + Len(needle)) = needle

\* newCssFileFullPath
CssTargetPath(cssFileBaseName, htmlFilePath, config) ==
    IF config.cssOutputDirStrategy = "relativeToHtml"
    THEN PathJoin(Dirname(htmlFilePath), cssFileBaseName \o CssExt)
    ELSE PathJoin(StripSlashes(config.stylesOutputDir), cssFileBaseName \o CssExt)

\* The text saveCssFile leaves in a target that holds existing (a text of
\* blocks is blank only when it is empty)
CssMerged(existing, cssContent) ==
    IF Includes(existing, cssContent) THEN existing
    ELSE IF existing # <<>> THEN existing \o <<AppendSeparator>> \o cssContent
    ELSE cssContent

\* saveCssFile(cssContent, cssFileBaseName, htmlFilePath, config, isDryRun) on
\* the CSS files fs; failed: ensureDir, readFile or writeFile throws.
\* path is <<>> for the null the code returns.
saveCssFile(cssContent, cssFileBaseName, htmlFilePath, config, isDryRun, fs, failed) ==
    LET target == CssTargetPath(cssFileBaseName, htmlFilePath, config)
        exists == target \in DOMAIN fs
        writeNeeded == ~(exists /\ Includes(fs[target], cssContent))
        decision == IF ~exists THEN "create"
                    ELSE IF Includes(fs[target], cssContent) THEN "skip"
                    ELSE "append"
        final == CssMerged(IF exists THEN fs[target] ELSE <<>>, cssContent)
    IN  IF cssContent = <<>>
        THEN [path |-> <<>>, fs |-> fs, wrote |-> FALSE, decision |-> "none", failed |-> FALSE]
        ELSE IF isDryRun
        THEN [path |-> target, fs |-> fs, wrote |-> FALSE, decision |-> decision,
              failed |-> FALSE]
        ELSE IF failed
        THEN [path |-> <<>>, fs |-> fs, wrote |-> FALSE, decision |-> decision,
              failed |-> TRUE]
        ELSE [path |-> target,
              fs |-> IF writeNeeded THEN WriteFile(fs, target, final) ELSE fs,
              wrote |-> writeNeeded, decision |-> decision, failed |-> FALSE]

-----------------------------------------------------------------------------
(* saveCssFile of old-html-refactor.js, which puts the Tailwind directives  *)
(* in front of the file                                                     *)

\* tailwindDirectives
TailwindDirectives ==
    [kind |-> "directives", from |-> <<>>, index |-> 0, cls |-> <<>>, body |-> <<>>]

\* existingCssContent.includes("@tailwind base;")
HasDirectives(css) == \E i \in DOMAIN css : css[i].kind = "directives"

\* `/* --- Appended styles from ${basename} on ${new Date().toISOString()} --- */`
AppendedFrom(sourceName, now) ==
    [kind |-> "separator", from |-> sourceName, index |-> now, cls |-> <<>>, body |-> <<>>]

\* contentToWrite
OldContentToWrite(existing, fileExisted, cssContent, sourceName, now) ==
    IF ~HasDirectives(existing) THEN <<TailwindDirectives>> \o cssContent
    ELSE IF fileExisted
         THEN existing \o <<AppendedFrom(sourceName, now)>> \o cssContent
         ELSE cssContent

\* saveCssFile(cssContent, cssFileBaseName, sourceHtmlFilePath) of
\* old-html-refactor.js on the CSS files fs with target the file it computes;
\* failed: ensureDir, readFile or writeFile throws
saveCssFileOld(cssContent, target, sourceHtmlFilePath, fs, now, failed) ==
    LET fileExisted == target \in DOMAIN fs
        existingCssContent == IF fileExisted THEN fs[target] ELSE <<>>
        present == HasDirectives(existingCssContent) /\ fileExisted
                   /\ Includes(existingCssContent, cssContent)
        finalOutput == OldContentToWrite(existingCssContent, fileExisted, cssContent,
                                         Drop(sourceHtmlFilePath,
                                              LastSlash(sourceHtmlFilePath)), now)
        write == ~present /\ (~fileExisted \/ finalOutput # existingCssContent)
    IN  IF cssContent = <<>>
        THEN [path |-> <<>>, fs |-> fs, wrote |-> FALSE, failed |-> FALSE]
        ELSE IF failed
        THEN [path |-> <<>>, fs |-> fs, wrote |-> FALSE, failed |-> TRUE]
        ELSE [path |-> target,
              fs |-> IF write THEN WriteFile(fs, target, finalOutput) ELSE fs,
              wrote |-> write, failed |-> FALSE]

-----------------------------------------------------------------------------
(* addCssLinkToHtmlHead *)

\* relativeLinkPathFromHtml
CssLinkHref(htmlFilePath, cssFileBaseName, config) ==
    Relative(Dirname(htmlFilePath),
             PathJoin(StripSlashes(config.compiledCssLinkDir), cssFileBaseName \o CssExt))

\* $('head link[rel="stylesheet"]') holds a link with this href
LinkAlreadyExists(doc, href) ==
    \E i \in DOMAIN doc : doc[i].tag = "link" /\ doc[i].inHead /\ doc[i].href = href

\* $('head').append(link): after the last element of the head
AppendToHead(doc, e) ==
    LET headIdx == {i \in DOMAIN doc : doc[i].inHead}
        at == IF headIdx = {} THEN 0 ELSE CHOOSE i \in headIdx : \A j \in headIdx : j <= i
    IN  SubSeq(doc, 1, at) \o <<e>> \o SubSeq(doc, at + 1, Len(doc))

\* addCssLinkToHtmlHead($, htmlFilePath, cssFileBaseName, config)
addCssLinkToHtmlHead(doc, htmlFilePath, cssFileBaseName, config) ==
    LET href == CssLinkHref(htmlFilePath, cssFileBaseName, config)
    IN  IF LinkAlreadyExists(doc, href)
        THEN [doc |-> doc, added |-> FALSE]
        ELSE [doc |-> AppendToHead(doc, LinkTag(href, TRUE)), added |-> TRUE]

-----------------------------------------------------------------------------
(* processHtmlFile *)

\* One write to disk of a processHtmlFile call
FileWrite(kind, path) == [kind |-> kind, path |-> path]

BakExt == <<".", "b", "a", "k">>

\* path.join's normalisation of '..' components: each takes back the
\* component before it
RECURSIVE NormalizeParts(_, _)
NormalizeParts(done, parts) ==
    IF parts = <<>> THEN done
    ELSE IF Head(parts) = <<".", ".">> /\ done # <<>> /\ done[Len(done)] # <<".", ".">>
         THEN NormalizeParts(Prefix(done, Len(done) - 1), Tail(parts))
         ELSE NormalizeParts(Append(done, Head(parts)), Tail(parts))

\* htmlDestPath, jsDestPath: path.join(distDir, path.relative(distSourceRoot,
\* path))
DistPath(path, config) ==
    Join(NormalizeParts(<<>>, DirParts(StripSlashes(config.distDir))
                              \o Split(Relative(StripSlashes(config.distSourceRoot), path),
                                       "/")),
         <<"/">>)

RECURSIVE CopyJsToDist(_, _, _, _, _)
CopyJsToDist(dist, jsFiles, js, config, k) ==
    IF k > Len(jsFiles) THEN dist
    ELSE CopyJsToDist(
            IF jsFiles[k].sourcePath \in DOMAIN js
            THEN WriteFile(dist, DistPath(jsFiles[k].sourcePath, config),
                           js[jsFiles[k].sourcePath])
            ELSE dist,
            jsFiles, js, config, k + 1)

\* The value of a constant the code binds once: the member of a singleton
Once(S) == CHOOSE x \in S : TRUE

\* The CSS step of processHtmlFile for the extraction result css: the CSS
\* file is saved when the extraction changed the document or found CSS, and
\* the link is added when a path came back
SaveAndLink(htmlFilePath, config, isDryRun, fs, io, css) ==
    LET cssFileBase == generateCssFileBaseName(htmlFilePath,
                           config.htmlPrefixesToOmitFromCssName, config.maxFilenameLength)
        saved == IF css.cssModified \/ css.cssContent # <<>>
                 THEN saveCssFile(css.cssContent, cssFileBase, htmlFilePath, config,
                                  isDryRun, fs.css, io.cssFail)
                 ELSE [path |-> <<>>, fs |-> fs.css, wrote |-> FALSE,
                       decision |-> "none", failed |-> FALSE]
        link == IF saved.path # <<>>
                THEN addCssLinkToHtmlHead(css.doc, htmlFilePath, cssFileBase, config)
                ELSE [doc |-> css.doc, added |-> FALSE]
    IN  [saved |-> saved, doc |-> link.doc, newCssLinkAdded |-> link.added]

\* A backup taken once the page has been rewritten
BackupContent_AfterWrite(fs, htmlFilePath, finalHtmlContent) == finalHtmlContent

\* fs.copyFile(htmlFilePath, backupPath): the backup holds what is on disk
\* when the copy is made, before fs.writeFile
BackupContent(fs, htmlFilePath, finalHtmlContent) == fs.html[htmlFilePath]

\* The rest of processHtmlFile once the three extraction steps are done: the
\* backup, the rewrite of the HTML file, the copy to dist, the value returned
ProcessOutcome(htmlFilePath, config, isDryRun, fs, io, css, linked, js) ==
    LET initialHtmlContent == fs.html[htmlFilePath]
        finalHtmlContent == js.doc
        saved == linked.saved
        effectiveChangeMade ==
            css.cssModified \/ js.jsModifiedInHtml \/ linked.newCssLinkAdded
        rewrite == effectiveChangeMade /\ ~isDryRun /\ finalHtmlContent # initialHtmlContent
        bakThrows == rewrite /\ config.createBackups /\ io.bakFail
        htmlThrows == rewrite /\ ~bakThrows /\ io.htmlFail
        thrown == bakThrows \/ htmlThrows
        bakDone == rewrite /\ config.createBackups /\ ~bakThrows
        htmlDone == rewrite /\ ~thrown
        toDist == effectiveChangeMade /\ config.copyToDist /\ ~isDryRun /\ ~thrown
    IN  [ret |-> IF ~effectiveChangeMade \/ thrown THEN FALSE
                 ELSE IF isDryRun THEN TRUE
                 ELSE finalHtmlContent # initialHtmlContent,
         fs |-> [html |-> IF htmlDone
                          THEN WriteFile(fs.html, htmlFilePath, finalHtmlContent)
                          ELSE fs.html,
                 css  |-> saved.fs,
                 js   |-> js.fs,
                 bak  |-> IF bakDone
                          THEN WriteFile(fs.bak, htmlFilePath \o BakExt,
                                         BackupContent(fs, htmlFilePath,
                                                       finalHtmlContent))
                          ELSE fs.bak,
                 dist |-> IF toDist
                          THEN [html |-> WriteFile(fs.dist.html,
                                                   DistPath(htmlFilePath, config),
                                                   finalHtmlContent),
                                js   |-> CopyJsToDist(fs.dist.js, js.extractedJsFiles,
                                                      js.fs, config, 1)]
                          ELSE fs.dist],
         clock |-> js.clock,
         writes |-> (IF saved.wrote THEN <<FileWrite("css", saved.path)>> ELSE <<>>)
                    \o [n \in DOMAIN js.writes |-> FileWrite("js", js.writes[n].path)]
                    \o (IF bakDone THEN <<FileWrite("bak", htmlFilePath \o BakExt)>>
                        ELSE <<>>)
                    \o (IF htmlDone THEN <<FileWrite("html", htmlFilePath)>> ELSE <<>>)
                    \o (IF toDist
                        THEN <<FileWrite("dist", DistPath(htmlFilePath, config))>>
                             \o [n \in DOMAIN js.extractedJsFiles |->
                                   FileWrite("dist", DistPath(
                                       js.extractedJsFiles[n].sourcePath, config))]
                        ELSE <<>>),
         failure |-> saved.failed \/ js.failed # {} \/ thrown,
         css |-> [path |-> saved.path, decision |-> saved.decision],
         items |-> js.items,
         jsFiles |-> js.extractedJsFiles,
         doc |-> finalHtmlContent]

\* processHtmlFile from the script extraction on
ProcessScripts(htmlFilePath, config, isDryRun, fs, now, io, css, linked) ==
    Once({ProcessOutcome(htmlFilePath, config, isDryRun, fs, io, css, linked, js) :
            js \in {extractJsFromHtml(linked.doc, htmlFilePath,
                        sanitizeStringForFilename(Basename(htmlFilePath, HtmlExt)),
                        config, isDryRun, fs.js, now, io)}})

\* processHtmlFile from the CSS step on
ProcessCss(htmlFilePath, config, isDryRun, fs, now, io, css) ==
    Once({ProcessScripts(htmlFilePath, config, isDryRun, fs, now, io, css, linked) :
            linked \in {SaveAndLink(htmlFilePath, config, isDryRun, fs, io, css)}})

\* processHtmlFile(htmlFilePath, config, isDryRun) on the files fs at time
\* now.  io says which I/O operations throw and how time passes.  The result
\* holds the value returned, the files afterwards and the writes made; a
\* readFile that throws ends the call in the catch.
processHtmlFile(htmlFilePath, config, isDryRun, fs, now, io) ==
    IF io.readFail
    THEN [ret |-> FALSE, fs |-> fs, clock |-> now, writes |-> <<>>, failure |-> TRUE,
          css |-> [path |-> <<>>, decision |-> "none"], items |-> <<>>,
          jsFiles |-> <<>>, doc |-> <<>>]
    ELSE Once({ProcessCss(htmlFilePath, config, isDryRun, fs, now, io, css) :
                 css \in {extractCssFromHtml(fs.html[htmlFilePath],
                                             Basename(htmlFilePath, HtmlExt))}})

-----------------------------------------------------------------------------
(* The state no operation of a specification touches *)

NoFiles == <<>>

NoDist == [html |-> NoFiles, js |-> NoFiles]

Idle == [op |-> "none"]

FilesIdle ==
    /\ htmlFs = NoFiles /\ cssFs = NoFiles /\ jsFs = NoFiles /\ bakFs = NoFiles
    /\ distFs = NoDist
    /\ clock = 0 /\ last = Idle

FilesUnchanged == UNCHANGED <<htmlFs, cssFs, jsFs, bakFs, distFs, clock, last>>

-----------------------------------------------------------------------------
(* SpecStyle: extractCssFromHtml on documents of elements with inline styles *)

MaxDecls == 2

\* The raw declarations the style attributes are made of
DeclPieces ==
    { <<"a", ":", "b">>, <<"a", ":", " ", "b">>, <<" ", "a", ":", "b", " ">>,
      <<"c", ":", "d">>, <<>> }

RECURSIVE StylesOf(_)
StylesOf(n) ==
    IF n = 1 THEN DeclPieces
    ELSE StylesOf(n - 1) \cup
         {s \o <<";">> \o d : s \in StylesOf(n - 1), d \in DeclPieces}

StyleInputs == StylesOf(MaxDecls)

StyleDocs ==
    {<<Styled(s1), Styled(s2)>> : s1 \in StyleInputs, s2 \in StyleInputs}
    \cup {<<Styled(s1), Styled(s2), Styled(s1)>> : s1 \in StyleInputs, s2 \in StyleInputs}

StyleBase == <<"x">>

InitStyle ==
    /\ pc = "style"
    /\ inp \in {[doc |-> d] : d \in StyleDocs}
    /\ out = Idle
    /\ FilesIdle

StyleExtract ==
    /\ pc = "style"
    /\ out' = extractCssFromHtml(inp.doc, StyleBase)
    /\ pc' = "styleDone"
    /\ UNCHANGED inp
    /\ FilesUnchanged

NextStyle == StyleExtract

SpecStyle == InitStyle /\ [][NextStyle]_vars

\* The declarations of a style attribute: its ';' segments, trimmed, the
\* empty ones left out
DeclsOf(style) ==
    {d \in {Trim(Split(style, ";")[i]) : i \in DOMAIN Split(style, ";")} : d # <<>>}

TimesIn(style, d) ==
    Cardinality({i \in DOMAIN Split(style, ";") : Trim(Split(style, ";")[i]) = d})

\* Two style attributes hold the same declarations, each as often, in any
\* order, with any whitespace around a declaration and any empty segments
SameDeclarations(s1, s2) ==
    /\ DeclsOf(s1) = DeclsOf(s2)
    /\ \A d \in DeclsOf(s1) : TimesIn(s1, d) = TimesIn(s2, d)

RulesFor(css, cls) == {k \in DOMAIN css : css[k].kind = "rule" /\ css[k].cls = cls}

SharesOneRule(i, j) ==
    /\ Len(out.doc[i].class) = 1
    /\ out.doc[i].class = out.doc[j].class
    /\ Cardinality(RulesFor(out.cssContent, out.doc[i].class[1])) = 1

\* C2: elements whose style attributes hold the same declarations, differing
\* only in their order, in the whitespace around each and in empty segments,
\* get the same class, and one CSS rule is emitted for that class.
C2_StyleDedupByOrder ==
    pc = "styleDone" =>
        \A i, j \in DOMAIN inp.doc :
            (HasStyleAttr(inp.doc[i]) /\ HasStyleAttr(inp.doc[j])
             /\ SameDeclarations(inp.doc[i].style, inp.doc[j].style))
            => SharesOneRule(i, j)

\* Three elements, two of them with the same two declarations in a different
\* order, share a class and a rule.
C2_Witness ==
    /\ pc = "styleDone"
    /\ Len(inp.doc) = 3
    /\ Cardinality(DeclsOf(inp.doc[1].style)) = 2
    /\ SameDeclarations(inp.doc[1].style, inp.doc[2].style)
    /\ normalizeStyleString_NoSort(inp.doc[1].style)
           # normalizeStyleString_NoSort(inp.doc[2].style)
    /\ SharesOneRule(1, 2) /\ SharesOneRule(2, 3)

\* A declaration as CSS reads it: the property and the value, without the
\* whitespace around either
SemanticDecl(d) ==
    IF \E k \in DOMAIN d : d[k] = ":"
    THEN LET k == CHOOSE k \in DOMAIN d : d[k] = ":" /\ \A m \in 1..(k - 1) : d[m] # ":"
         IN  Trim(SubSeq(d, 1, k - 1)) \o <<":">> \o Trim(SubSeq(d, k + 1, Len(d)))
    ELSE Trim(d)

SemanticDecls(style) == {SemanticDecl(d) : d \in DeclsOf(style)}

SemanticTimes(style, sd) ==
    Cardinality({i \in DOMAIN Split(style, ";") :
                    /\ Trim(Split(style, ";")[i]) # <<>>
                    /\ SemanticDecl(Trim(Split(style, ";")[i])) = sd})

SemanticallyEqual(s1, s2) ==
    /\ SemanticDecls(s1) = SemanticDecls(s2)
    /\ \A sd \in SemanticDecls(s1) : SemanticTimes(s1, sd) = SemanticTimes(s2, sd)

\* C3: elements with semantically equal inline styles (the same declarations,
\* any order, any whitespace, also inside a declaration, as around ':') get
\* the same class and contribute one CSS rule.
C3_StyleDedupAnyWhitespace ==
    pc = "styleDone" =>
        \A i, j \in DOMAIN inp.doc :
            (HasStyleAttr(inp.doc[i]) /\ HasStyleAttr(inp.doc[j])
             /\ SemanticallyEqual(inp.doc[i].style, inp.doc[j].style))
            => SharesOneRule(i, j)

-----------------------------------------------------------------------------
(* SpecName: the base name of one HTML path *)

\* interactiveConfigSetup accepts maxFilenameLength when input > 10 and < 200
MinMaxFilenameLength == 11
MaxMaxFilenameLength == 199

\* The lengths checked: MinMaxFilenameLength and the MaxLenSpan after it
MaxLenSpan == 9

MaxLenInputs ==
    {n \in MinMaxFilenameLength..(MinMaxFilenameLength + MaxLenSpan) :
        n <= MaxMaxFilenameLength}

MaxPad == 10

RECURSIVE Repeat(_, _)
Repeat(c, n) == IF n = 0 THEN <<>> ELSE <<c>> \o Repeat(c, n - 1)

\* Stems: a run of 'b', one of the middles, a run of 'b'
StemMiddles == {<<>>, <<"_">>, <<"$">>, <<"$", "$">>, <<"_", "$">>}

StemInputs ==
    {Repeat("b", m) \o mid \o Repeat("b", n) :
        m \in 0..MaxPad, mid \in StemMiddles, n \in 0..MaxPad}

DirInputs == {<<>>, <<"a", "/">>, <<"s", "r", "c", "/">>, <<"s", "r", "c", "/", "a", "/">>}

PrefixInputs == {<<>>, << <<"s", "r", "c", "/">> >>}

InitName ==
    /\ pc = "name"
    /\ inp \in {[path |-> dir \o stem \o HtmlExt, prefixes |-> pre, max |-> max] :
                    dir \in DirInputs, stem \in StemInputs,
                    pre \in PrefixInputs, max \in MaxLenInputs}
    /\ out = Idle
    /\ FilesIdle

NameGenerate ==
    /\ pc = "name"
    /\ out' = [candidate |-> CssFileBaseCandidate(inp.path, inp.prefixes),
               name |-> generateCssFileBaseName(inp.path, inp.prefixes, inp.max)]
    /\ pc' = "nameDone"
    /\ UNCHANGED inp
    /\ FilesUnchanged

NextName == NameGenerate

SpecName == InitName /\ [][NextName]_vars

HashLen == 8

IsHex(s) == \A i \in DOMAIN s : \E k \in DOMAIN HexDigits : HexDigits[k] = s[i]

Truncated == Len(sanitizeStringForFilename(out.candidate)) > inp.max

\* C4: the base name is no longer than maxFilenameLength (11 to 199); when
\* the name is truncated it is the first max - 1 - 8 characters of the
\* sanitized name, then '_', then 8 hexadecimal digits.
C4_LengthBound ==
    pc = "nameDone" =>
        /\ Len(out.name) <= inp.max
        /\ Truncated =>
            /\ Len(out.name) = inp.max
            /\ Prefix(out.name, inp.max - 1 - HashLen)
                   = Prefix(sanitizeStringForFilename(out.candidate),
                            inp.max - 1 - HashLen)
            /\ out.name[inp.max - HashLen] = "_"
            /\ IsHex(Drop(out.name, inp.max - HashLen))

\* C5: the base name derived from an HTML path is not the empty string, also
\* for a file named just '.html' and for names of unsafe characters only.
C5_NonEmptyName ==
    pc = "nameDone" => out.name # <<>>

HasDoubleUnderscore(s) == \E i \in 1..(Len(s) - 1) : s[i] = "_" /\ s[i + 1] = "_"

\* C6: a base name holds only characters of [A-Za-z0-9_.-] and no two
\* consecutive '_', also when it was truncated and given a hash.
C6_SanitizedOutput ==
    pc = "nameDone" =>
        /\ \A i \in DOMAIN out.name : out.name[i] \in FilenameSafeChars
        /\ ~HasDoubleUnderscore(out.name)

-----------------------------------------------------------------------------
(* SpecNamePair: the base names of two HTML paths under one configuration *)

LongStem == Repeat("b", 18)

MaxTail == 1

RECURSIVE TailsOf(_)
TailsOf(n) ==
    IF n = 0 THEN {<<>>}
    ELSE TailsOf(n - 1) \cup {Append(t, c) : t \in TailsOf(n - 1), c \in {"b", "c"}}

PairPathInputs ==
    {head \o LongStem \o tail \o HtmlExt :
        head \in {<<>>, <<"a", "/">>, <<"a", "_">>, <<"c", "/">>,
                  <<"s", "r", "c", "/", "a", "/">>},
        tail \in TailsOf(MaxTail)}

InitNamePair ==
    /\ pc = "pair"
    /\ inp \in {[path1 |-> p1, path2 |-> p2, prefixes |-> pre, max |-> max] :
                    p1 \in PairPathInputs, p2 \in PairPathInputs,
                    pre \in PrefixInputs, max \in MaxLenInputs}
    /\ out = Idle
    /\ FilesIdle

NamePairGenerate ==
    /\ pc = "pair"
    /\ out' = [candidate1 |-> CssFileBaseCandidate(inp.path1, inp.prefixes),
               candidate2 |-> CssFileBaseCandidate(inp.path2, inp.prefixes),
               name1 |-> generateCssFileBaseName(inp.path1, inp.prefixes, inp.max),
               name2 |-> generateCssFileBaseName(inp.path2, inp.prefixes, inp.max)]
    /\ pc' = "pairDone"
    /\ UNCHANGED inp
    /\ FilesUnchanged

NextNamePair == NamePairGenerate

SpecNamePair == InitNamePair /\ [][NextNamePair]_vars

\* The prefix generateSafeBaseName keeps of a name it truncates
KeptPrefix(name) == Prefix(name, Len(name) - 1 - HashLen)

DigestCollisionFree ==
    pc = "pairDone" =>
        (out.candidate1 # out.candidate2
         => Sha256Hex8(out.candidate1) # Sha256Hex8(out.candidate2))

-----------------------------------------------------------------------------
(* SpecJs: one extractJsFromHtml call on a document of <script> elements *)

MaxScripts == 3
MaxClock == 1
MaxFails == 1

ScriptA == <<"A">>
ScriptB == <<"B">>
LibSrc == <<"l", ".", "j", "s">>

\* An external script and inline scripts of two texts
ScriptKinds == {ScriptTag(<<>>, LibSrc), ScriptTag(ScriptA, <<>>), ScriptTag(ScriptB, <<>>)}

JsDocs == UNION {[1..n -> ScriptKinds] : n \in 1..MaxScripts}

JsConfigs ==
    {[jsOutputDirStrategy |-> strategy, jsCentralOutputDir |-> <<"j", "s", "/">>,
      maxFilenameLength |-> DefaultMaxFilenameLength] :
        strategy \in {"relativeToHtml", "centralized"}}

PageA == <<"a", "/", "x", ".", "h", "t", "m", "l">>
PageB == <<"b", "/", "x", ".", "h", "t", "m", "l">>
PageC == <<"c", "/", "x", ".", "h", "t", "m", "l">>

\* htmlFileRawBaseName, sanitized, as processHtmlFile passes it
HtmlBaseForJs(htmlFilePath) == sanitizeStringForFilename(Basename(htmlFilePath, HtmlExt))

\* The script files that may be on disk before the call: none, or one of
\* the names the call can compute, with either text
JsFilesBefore(htmlFilePath, config) ==
    {NoFiles} \cup
    {[q \in {PathJoin(JsOutputDir(htmlFilePath, config), name)} |-> content] :
        name \in {<<"x">> \o JsExt, <<"x", "_", "s", "2">> \o JsExt},
        content \in {ScriptA, ScriptB}}

\* The time that passes before each item, within what is left of the clock
TicksFor(n, now) ==
    {t \in [1..n -> 0..1] :
        Cardinality({k \in 1..n : t[k] = 1}) <= MaxClock - now}

FailsFor(n) == {F \in SUBSET (1..n) : Cardinality(F) <= MaxFails}

IoFor(doc, now) ==
    {[ticks |-> t, fails |-> F] :
        t \in TicksFor(Len(ScriptTagsToProcess(doc, 1)), now),
        F \in FailsFor(Len(ScriptTagsToProcess(doc, 1)))}

InitJs ==
    /\ pc = "js"
    /\ \E config \in JsConfigs, doc \in JsDocs :
         \E fs \in JsFilesBefore(PageA, config) :
            /\ inp = [doc |-> doc, path |-> PageA, config |-> config, fs |-> fs,
                      isDryRun |-> FALSE, clock |-> 0]
            /\ jsFs = fs
    /\ out = Idle
    /\ htmlFs = NoFiles /\ cssFs = NoFiles /\ bakFs = NoFiles /\ distFs = NoDist
    /\ clock = 0 /\ last = Idle

JsExtract(isDryRun) ==
    /\ pc = "js"
    /\ \E io \in IoFor(inp.doc, clock) :
         \E r \in {extractJsFromHtml(inp.doc, inp.path, HtmlBaseForJs(inp.path),
                                     inp.config, isDryRun, jsFs, clock, io)} :
             /\ out' = r
             /\ jsFs' = r.fs
             /\ clock' = r.clock
    /\ inp' = [inp EXCEPT !.isDryRun = isDryRun]
    /\ pc' = "jsDone"
    /\ UNCHANGED <<htmlFs, cssFs, bakFs, distFs, last>>

NextJs == \E isDryRun \in BOOLEAN : JsExtract(isDryRun)

SpecJs == InitJs /\ [][NextJs]_vars

\* The 1-based position of element i among all <script> elements
PositionAmongScripts(doc, i) == Cardinality({j \in 1..i : doc[j].tag = "script"})

\* The inline scripts extraction takes: no src, a body that is not blank
Extractable(doc) ==
    {i \in DOMAIN doc : doc[i].tag = "script" /\ doc[i].src = <<>> /\ Trim(doc[i].text) # <<>>}

\* base + '_s' + k for two or more extractable scripts, base alone for one
PositionalBase(doc, path, config, i) ==
    generateSafeBaseName(HtmlBaseForJs(path), config.maxFilenameLength)
    \o (IF Cardinality(Extractable(doc)) >= 2
        THEN <<"_", "s">> \o Decimal(PositionAmongScripts(doc, i))
        ELSE <<>>)

PositionalPath(doc, path, config, i) ==
    PathJoin(JsOutputDir(path, config), PositionalBase(doc, path, config, i) \o JsExt)

\* C8 as stated: the file name of every extracted script is base + '_s' + k +
\* '.js', k its 1-based position among all <script> elements, when two or
\* more scripts are extractable, and base + '.js' when one is.
C8_PositionalSuffixOnly ==
    pc = "jsDone" =>
        \A n \in DOMAIN out.items :
            out.items[n].name
                = PositionalBase(inp.doc, inp.path, inp.config, out.items[n].item) \o JsExt

\* C8 amended: the file name is base + '_s' + k + '.js' (base + '.js' for one
\* extractable script), k the position among all <script> elements, except
\* that in a real run a script whose computed path is on disk already gets
\* '-conflict-' and the clock's reading between that name and '.js'.
C8_PositionalSuffix ==
    pc = "jsDone" =>
        \A n \in DOMAIN out.items :
            LET r == out.items[n]
                base == PositionalBase(inp.doc, inp.path, inp.config, r.item)
            IN  IF ~inp.isDryRun
                   /\ PositionalPath(inp.doc, inp.path, inp.config, r.item) \in DOMAIN inp.fs
                THEN \E t \in inp.clock..clock : r.name = ConflictFileName(base, t)
                ELSE r.name = base \o JsExt

\* An external script first, then two inline scripts: they are extracted as
\* _s2 and _s3, one of them under a conflict name.
C8_Witness ==
    /\ pc = "jsDone"
    /\ ~inp.isDryRun
    /\ Len(inp.doc) = 3
    /\ inp.doc[1].src # <<>>
    /\ Len(out.items) = 2
    /\ out.items[1].name = <<"x", "_", "s", "2">> \o ConflictMark \o <<"0">> \o JsExt
    /\ out.items[2].name = <<"x", "_", "s", "3">> \o JsExt

\* C9: in a real run, when the computed path of a script is on disk with
\* content equal to the script's text, no file is written for the script and
\* its src is the computed file name.
C9_IdenticalContentSatisfied ==
    (pc = "jsDone" /\ ~inp.isDryRun) =>
        \A i \in Extractable(inp.doc) \ out.failed :
            LET p == PositionalPath(inp.doc, inp.path, inp.config, i)
            IN  (p \in DOMAIN inp.fs /\ inp.fs[p] = Trim(inp.doc[i].text))
                => /\ \A w \in DOMAIN out.writes : out.writes[w].item # i
                   /\ out.doc[i].src
                          = SrcAttrPath(inp.path, p,
                                PositionalBase(inp.doc, inp.path, inp.config, i) \o JsExt,
                                inp.config)

\* The n-th member of a set of positions, in document order
NthOf(S, n) == CHOOSE i \in S : Cardinality({j \in S : j < i}) = n - 1

\* The records are those of the scripts at the positions S, in document
\* order, each with the script's text, and their paths differ pairwise
RecordsAreOf(S) ==
    /\ Len(out.extractedJsFiles) = Cardinality(S)
    /\ \A n \in DOMAIN out.extractedJsFiles :
          /\ out.extractedJsFiles[n].content = Trim(inp.doc[NthOf(S, n)].text)
          /\ out.items[n].item = NthOf(S, n)
          /\ out.items[n].path = out.extractedJsFiles[n].sourcePath
    /\ \A n, m \in DOMAIN out.extractedJsFiles :
          n # m => out.extractedJsFiles[n].sourcePath # out.extractedJsFiles[m].sourcePath

\* C11 as stated: a document with N extractable inline scripts yields exactly
\* N extracted-file records, one per script in document order, with pairwise
\* distinct paths.
C11_OneRecordPerScript ==
    pc = "jsDone" => RecordsAreOf(Extractable(inp.doc))

\* C11 amended: the records are those of the extractable scripts whose write
\* did not fail (in a dry run: of all of them), one per script in document
\* order, with pairwise distinct paths, also for scripts of identical text.
C11_OneRecordPerWrittenScript ==
    pc = "jsDone" => RecordsAreOf(Extractable(inp.doc) \ out.failed)

\* Three inline scripts, the first two of the same text; the write of the
\* third fails: two records, for the first two.
C11_Witness ==
    /\ pc = "jsDone"
    /\ ~inp.isDryRun
    /\ Cardinality(Extractable(inp.doc)) = 3
    /\ inp.doc[1].text = inp.doc[2].text
    /\ out.failed = {3}
    /\ Len(out.extractedJsFiles) = 2
    /\ out.extractedJsFiles[1].content = out.extractedJsFiles[2].content
    /\ out.extractedJsFiles[1].sourcePath # out.extractedJsFiles[2].sourcePath

\* C28: in a real run a script element is emptied and given its src only
\* after its file was written, and the src names that file; when the write
\* fails the element keeps its body and gets no src, no record is returned
\* for it, and the other scripts are still processed.
C28_MutationFollowsWrite ==
    (pc = "jsDone" /\ ~inp.isDryRun) =>
        /\ \A i \in DOMAIN inp.doc :
              (out.doc[i] # inp.doc[i]) =>
                  \E n \in DOMAIN out.items :
                     /\ out.items[n].item = i
                     /\ out.doc[i] = [inp.doc[i] EXCEPT !.text = <<>>,
                                                        !.src = out.items[n].src]
                     /\ out.items[n].src = SrcAttrPath(inp.path, out.items[n].path,
                                                       out.items[n].name, inp.config)
                     /\ out.items[n].path \in DOMAIN jsFs
                     /\ jsFs[out.items[n].path] = Trim(inp.doc[i].text)
                     /\ \E w \in DOMAIN out.writes :
                           /\ out.writes[w].item = i
                           /\ out.writes[w].path = out.items[n].path
        /\ \A i \in out.failed :
              /\ out.doc[i] = inp.doc[i]
              /\ \A n \in DOMAIN out.items : out.items[n].item # i
              /\ \A w \in DOMAIN out.writes : out.writes[w].item # i
        /\ \A i \in Extractable(inp.doc) \ out.failed :
              /\ out.doc[i].text = <<>> /\ out.doc[i].src # <<>>
              /\ \E n \in DOMAIN out.items : out.items[n].item = i
        /\ Len(out.extractedJsFiles) = Len(out.items)

\* Three inline scripts; the write of the second fails: it stays as it was
\* between two scripts that were extracted.
C28_Witness ==
    /\ pc = "jsDone" /\ ~inp.isDryRun
    /\ Cardinality(Extractable(inp.doc)) = 3
    /\ out.failed = {2}
    /\ out.doc[2] = inp.doc[2]
    /\ out.doc[1].src # <<>> /\ out.doc[3].src # <<>>
    /\ Len(out.items) = 2

-----------------------------------------------------------------------------
(* SpecJsBatch: the extractJsFromHtml calls of one batch, document by document *)

MaxBatchScripts == 1

BatchPages == {PageA, PageB, PageC}

BatchDocs ==
    UNION {[1..n -> {ScriptTag(ScriptA, <<>>), ScriptTag(ScriptB, <<>>)}] :
              n \in 1..MaxBatchScripts}

ScriptC == <<"C">>

\* The script files on disk before the batch: none, or a file of the name
\* the batch computes, with a text none of its scripts has
BatchFilesBefore(config) ==
    {NoFiles,
     [q \in {PathJoin(JsOutputDir(PageA, config), <<"x">> \o JsExt)} |-> ScriptC]}

InitJsBatch ==
    /\ pc = "batch"
    /\ \E config \in JsConfigs :
         /\ inp = [config |-> config, todo |-> BatchPages]
         /\ jsFs \in BatchFilesBefore(config)
    /\ out = Idle
    /\ htmlFs = NoFiles /\ cssFs = NoFiles /\ bakFs = NoFiles /\ distFs = NoDist
    /\ clock = 0 /\ last = Idle

\* The call processHtmlFile makes for the next document of the batch
JsBatchExtract(path, doc) ==
    /\ pc = "batch"
    /\ path \in inp.todo
    /\ \E io \in IoFor(doc, clock) :
         \E r \in {extractJsFromHtml(doc, path, HtmlBaseForJs(path), inp.config,
                                     FALSE, jsFs, clock, io)} :
             /\ out' = r
             /\ jsFs' = r.fs
             /\ clock' = r.clock
             /\ last' = [op |-> "extractJs", path |-> path, doc |-> doc, fs |-> jsFs]
    /\ inp' = [inp EXCEPT !.todo = @ \ {path}]
    /\ UNCHANGED <<pc, htmlFs, cssFs, bakFs, distFs>>

NextJsBatch == \E path \in BatchPages, doc \in BatchDocs : JsBatchExtract(path, doc)

SpecJsBatch == InitJsBatch /\ [][NextJsBatch]_vars

\* The files on disk when the n-th write of the last call was made
FsAtWrite(n) ==
    [q \in DOMAIN last.fs \cup {out.writes[m].path : m \in 1..(n - 1)} |->
        IF \E m \in 1..(n - 1) : out.writes[m].path = q
        THEN out.writes[CHOOSE m \in 1..(n - 1) :
                            /\ out.writes[m].path = q
                            /\ \A m2 \in (m + 1)..(n - 1) : out.writes[m2].path # q].content
        ELSE last.fs[q]]

\* C10: no extraction of a batch overwrites a file whose content differs from
\* the script written; a script whose computed path holds different content
\* is written under a name that was not in use, and its src names that file.
C10_NoSilentOverwrite ==
    (pc = "batch" /\ last # Idle) =>
        /\ \A n \in DOMAIN out.writes :
              out.writes[n].existed => out.writes[n].old = out.writes[n].content
        /\ \A n \in DOMAIN out.writes :
              LET w == out.writes[n]
                  p == PositionalPath(last.doc, last.path, inp.config, w.item)
              IN  (p \in DOMAIN FsAtWrite(n) /\ FsAtWrite(n)[p] # w.content)
                  => /\ w.path \notin DOMAIN FsAtWrite(n)
                     /\ out.doc[w.item].src
                            = SrcAttrPath(last.path, w.path, Drop(w.path, LastSlash(w.path)),
                                          inp.config)

-----------------------------------------------------------------------------
(* Spec: runs of processHtmlFile on one HTML file, with I/O failures and    *)
(* external edits of the file between runs                                  *)

MaxElems == 1
MaxRuns == 2
MaxEdits == 1

\* getDefaultConfig()
DefaultConfig ==
    [stylesOutputDir |-> <<"s", "t", "y", "l", "e", "s", "/", "e", "x", "t", "r", "a", "c",
                           "t", "e", "d">>,
     cssOutputDirStrategy |-> "centralized",
     jsOutputDirStrategy |-> "relativeToHtml",
     jsCentralOutputDir |-> <<"j", "s", "/", "e", "x", "t", "r", "a", "c", "t", "e", "d">>,
     compiledCssLinkDir |-> <<"a", "s", "s", "e", "t", "s", "/", "c", "s", "s">>,
     copyToDist |-> FALSE,
     distDir |-> <<"d", "i", "s", "t", "/">>,
     distSourceRoot |-> <<"s", "r", "c", "/">>,
     createBackups |-> TRUE,
     maxFilenameLength |-> DefaultMaxFilenameLength,
     htmlPrefixesToOmitFromCssName |->
        << <<"s", "r", "c", "/", "p", "u", "b", "l", "i", "c", "/">>,
           <<"p", "u", "b", "l", "i", "c", "/">>,
           <<"s", "r", "c", "/", "p", "a", "g", "e", "s", "/">>,
           <<"s", "r", "c", "/">> >>]

\* The default configuration, it with the dist copy, and it with the other
\* output strategies and without backups
PageConfigs ==
    {DefaultConfig,
     [DefaultConfig EXCEPT !.copyToDist = TRUE],
     [DefaultConfig EXCEPT !.cssOutputDirStrategy = "relativeToHtml",
                           !.jsOutputDirStrategy = "centralized",
                           !.createBackups = FALSE]}

SrcPage == <<"s", "r", "c", "/", "p", ".", "h", "t", "m", "l">>

StyleAB == <<"a", ":", "b">>
StyleCD == <<"c", ":", "d">>

\* What the <head> of the page holds: nothing, a <style> element, or the
\* link to the page's compiled CSS
HeadsOf(config) ==
    {<<>>, <<StyleTag(StyleAB)>>,
     <<LinkTag(CssLinkHref(SrcPage,
                  generateCssFileBaseName(SrcPage, config.htmlPrefixesToOmitFromCssName,
                                          config.maxFilenameLength),
                  config), TRUE)>>}

\* An element with an inline style, an inline script, an external script
BodyKinds == {Styled(StyleAB), ScriptTag(ScriptA, <<>>), ScriptTag(<<>>, LibSrc)}

BodiesOf(n) == UNION {[1..m -> BodyKinds] : m \in 0..n}

PageDocs(config) == {h \o b : h \in HeadsOf(config), b \in BodiesOf(MaxElems)}

\* The CSS text of some other page
ForeignCss == <<StyleTagBlock(<<"o">>, 0, StyleCD)>>

\* The extracted files on disk before the first run: none, or the page's
\* CSS target with another page's styles and the script file of the page's
\* name
DiskBefore(config) ==
    {[css |-> NoFiles, js |-> NoFiles],
     [css |-> [q \in {CssTargetPath(generateCssFileBaseName(SrcPage,
                          config.htmlPrefixesToOmitFromCssName, config.maxFilenameLength),
                          SrcPage, config)} |-> ForeignCss],
      js  |-> [q \in {PathJoin(JsOutputDir(SrcPage, config),
                               generateSafeBaseName(HtmlBaseForJs(SrcPage),
                                                    config.maxFilenameLength) \o JsExt)}
                 |-> ScriptB]]}

\* How time passes during a call and which of its I/O operations throw: none,
\* or, while fewer than MaxFails calls have failed, one of the call's own or
\* some of its script writes
ProcessIo(doc, now, failedCalls) ==
    LET n == Len(ScriptTagsToProcess(doc, 1))
        own == IF failedCalls < MaxFails THEN {"none", "read", "css", "bak", "html"}
               ELSE {"none"}
        scripts == IF failedCalls < MaxFails THEN FailsFor(n) ELSE {{}}
    IN  {[readFail |-> f = "read", cssFail |-> f = "css", bakFail |-> f = "bak",
          htmlFail |-> f = "html", fails |-> {}, ticks |-> t] :
            f \in own, t \in TicksFor(n, now)}
        \cup
        {[readFail |-> FALSE, cssFail |-> FALSE, bakFail |-> FALSE, htmlFail |-> FALSE,
          fails |-> F, ticks |-> t] :
            F \in scripts, t \in TicksFor(n, now)}

AllFiles == [html |-> htmlFs, css |-> cssFs, js |-> jsFs, bak |-> bakFs, dist |-> distFs]

Init ==
    /\ pc = "page"
    /\ \E config \in PageConfigs :
         /\ inp = [config |-> config, path |-> SrcPage]
         /\ \E doc \in PageDocs(config), disk \in DiskBefore(config) :
              /\ htmlFs = [q \in {SrcPage} |-> doc]
              /\ cssFs = disk.css
              /\ jsFs = disk.js
    /\ bakFs = NoFiles
    /\ distFs = NoDist
    /\ clock = 0
    /\ out = Idle
    /\ last = [op |-> "none", isDryRun |-> FALSE, clean |-> FALSE, prevClean |-> FALSE,
               prevRet |-> FALSE, runs |-> 0, edits |-> 0, failed |-> 0]

\* One call of processHtmlFile on the page
ProcessHtmlFile(isDryRun) ==
    /\ last.runs < MaxRuns
    /\ \E io \in ProcessIo(htmlFs[inp.path], clock, last.failed) :
         \E r \in {processHtmlFile(inp.path, inp.config, isDryRun, AllFiles, clock, io)} :
             /\ htmlFs' = r.fs.html
             /\ cssFs' = r.fs.css
             /\ jsFs' = r.fs.js
             /\ bakFs' = r.fs.bak
             /\ distFs' = r.fs.dist
             /\ clock' = r.clock
             /\ out' = [ret |-> r.ret, writes |-> r.writes, failure |-> r.failure,
                        css |-> r.css, items |-> r.items, before |-> AllFiles]
             /\ last' = [op |-> "process", isDryRun |-> isDryRun,
                         clean |-> ~isDryRun /\ ~r.failure,
                         prevClean |-> last.clean,
                         prevRet |-> last.op = "process" /\ out.ret,
                         runs |-> last.runs + 1, edits |-> last.edits,
                         failed |-> last.failed + (IF r.failure THEN 1 ELSE 0)]
    /\ UNCHANGED <<pc, inp>>

\* Somebody edits the page between two runs: an element with an inline style
\* is added at its end
EditHtml ==
    /\ last.edits < MaxEdits
    /\ last.op = "process"
    /\ htmlFs' = [htmlFs EXCEPT ![inp.path] = Append(@, Styled(StyleCD))]
    /\ last' = [last EXCEPT !.op = "edit", !.clean = FALSE, !.prevClean = FALSE,
                            !.prevRet = FALSE, !.edits = @ + 1]
    /\ UNCHANGED <<pc, inp, out, cssFs, jsFs, bakFs, distFs, clock>>

Next ==
    \/ \E isDryRun \in BOOLEAN : ProcessHtmlFile(isDryRun)
    \/ EditHtml

Spec == Init /\ [][Next]_vars

\* C1: a processHtmlFile call that immediately follows a non-dry-run call on
\* the same path that completed without I/O failure returns false and writes
\* nothing: no HTML, CSS, JS, .bak or dist file is created or changed.
C1_IdempotentRerun ==
    (last.op = "process" /\ last.prevClean) =>
        /\ out.ret = FALSE
        /\ out.writes = <<>>
        /\ out.before = AllFiles

\* A second call after a first one that rewrote the page
C1_Witness ==
    /\ last.op = "process" /\ last.prevClean /\ last.prevRet
    /\ ~last.isDryRun
    /\ out.ret = FALSE
    /\ bakFs # NoFiles

\* Where out.writes holds a write of the given kind
WritesOf(kind) == {n \in DOMAIN out.writes : out.writes[n].kind = kind}

\* With createBackups every overwrite of the page comes right after the
\* write of '<file>.bak', which holds what the page held before the call
BackupPrecedesOverwrite ==
    inp.config.createBackups =>
        \A n \in WritesOf("html") :
            /\ n > 1
            /\ out.writes[n - 1] = FileWrite("bak", out.writes[n].path \o BakExt)
            /\ bakFs[out.writes[n].path \o BakExt] = out.before.html[out.writes[n].path]
            /\ htmlFs[out.writes[n].path] # out.before.html[out.writes[n].path]

\* Backups are made for the page only, and only by a write the call reports
BackupsOnlyForHtml ==
    /\ DOMAIN bakFs \subseteq {inp.path \o BakExt}
    /\ \A n \in WritesOf("bak") :
           /\ out.writes[n].path = inp.path \o BakExt
           /\ inp.config.createBackups /\ ~last.isDryRun
    /\ (WritesOf("bak") = {}) => bakFs = out.before.bak

\* C20 as stated: with createBackups every overwrite of an HTML source file is
\* preceded in the same run by creating '<file>.bak' holding the content the
\* file had just before; no backup is created when the HTML is not rewritten,
\* and none for CSS or JS writes.
C20_BackupBeforeOverwrite ==
    last.op = "process" =>
        /\ BackupPrecedesOverwrite
        /\ BackupsOnlyForHtml
        /\ (WritesOf("html") = {}) => WritesOf("bak") = {}

\* C20, amended: the backup is made when the rewrite is attempted; it stays
\* without a rewrite only when the write of the page itself throws.
C20_BackupBeforeAttemptedOverwrite ==
    last.op = "process" =>
        /\ BackupPrecedesOverwrite
        /\ BackupsOnlyForHtml
        /\ (WritesOf("html") = {} /\ ~out.failure) => WritesOf("bak") = {}
        /\ \A n \in WritesOf("bak") :
               \/ n < Len(out.writes) /\ out.writes[n + 1] = FileWrite("html", inp.path)
               \/ n = Len(out.writes) /\ out.failure /\ htmlFs = out.before.html

\* A call that wrote CSS and a script file, then the backup, then the page
C20_Witness ==
    /\ last.op = "process" /\ inp.config.createBackups
    /\ WritesOf("css") # {} /\ WritesOf("js") # {}
    /\ WritesOf("bak") # {} /\ WritesOf("html") # {}
    /\ bakFs[inp.path \o BakExt] # htmlFs[inp.path]

\* The CSS the call took out of the page it read
ExtractedCss ==
    extractCssFromHtml(out.before.html[inp.path], Basename(inp.path, HtmlExt)).cssContent

\* C27: whenever processHtmlFile writes the page with its inline styles or
\* <style> blocks removed, the CSS extracted in this run is in the page's CSS
\* target; when the CSS merge fails the page is not rewritten.
C27_NoStyleLost ==
    (last.op = "process" /\ WritesOf("html") # {} /\ ExtractedCss # <<>>) =>
        LET target == CssTargetPath(generateCssFileBaseName(inp.path,
                                        inp.config.htmlPrefixesToOmitFromCssName,
                                        inp.config.maxFilenameLength),
                                    inp.path, inp.config)
        IN  /\ target \in DOMAIN cssFs
            /\ Includes(cssFs[target], ExtractedCss)

-----------------------------------------------------------------------------
(* SpecLink: addCssLinkToHtmlHead called again and again on one document *)

MaxLinkCalls == 3
MaxLinkElems == 2

RootPage == <<"x", ".", "h", "t", "m", "l">>

LinkPages == {RootPage, PageA, SrcPage}

OtherHref == <<"o", ".", "c", "s", "s">>

\* The base name processHtmlFile passes for the page
CssBaseOf(htmlFilePath, config) ==
    generateCssFileBaseName(htmlFilePath, config.htmlPrefixesToOmitFromCssName,
                            config.maxFilenameLength)

\* Documents with stylesheet links in the head and in the body, to the
\* page's compiled CSS and to another file, and elements that are no links
LinkDocs(htmlFilePath, config) ==
    LET target == CssLinkHref(htmlFilePath, CssBaseOf(htmlFilePath, config), config)
        heads == {<<>>, <<LinkTag(target, TRUE)>>, <<LinkTag(OtherHref, TRUE)>>,
                  <<StyleTag(StyleAB)>>}
        kinds == {LinkTag(target, FALSE), LinkTag(OtherHref, FALSE), Styled(StyleAB)}
        bodies == UNION {[1..n -> kinds] : n \in 0..MaxLinkElems}
    IN  {h \o b : h \in heads, b \in bodies}

InitLink ==
    /\ pc = "link"
    /\ \E path \in LinkPages, config \in PageConfigs :
         \E doc \in LinkDocs(path, config) :
            inp = [doc |-> doc, path |-> path, config |-> config]
    /\ out = [doc |-> inp.doc, rets |-> <<>>]
    /\ FilesIdle

\* One more call on the document the last call left
AddCssLink ==
    /\ pc = "link"
    /\ Len(out.rets) < MaxLinkCalls
    /\ \E r \in {addCssLinkToHtmlHead(out.doc, inp.path, CssBaseOf(inp.path, inp.config),
                                      inp.config)} :
         out' = [doc |-> r.doc, rets |-> Append(out.rets, r.added)]
    /\ UNCHANGED <<pc, inp>>
    /\ FilesUnchanged

NextLink == AddCssLink

SpecLink == InitLink /\ [][NextLink]_vars

\* The positions of the stylesheet links of a document with the href
LinksTo(doc, href) == {i \in DOMAIN doc : doc[i].tag = "link" /\ doc[i].href = href}

NoDuplicateLinks(doc) ==
    \A i, j \in DOMAIN doc :
        (doc[i].tag = "link" /\ doc[j].tag = "link" /\ doc[i].href = doc[j].href) => i = j

\* C12: on a document without two stylesheet links of one href, after any
\* number of calls the document holds at most one link with the resolved
\* href, wherever in the document a link was; the first call returns true only
\* if no such link existed, every later call returns false.
C12_LinkNoDup ==
    (pc = "link" /\ NoDuplicateLinks(inp.doc)) =>
        LET target == CssLinkHref(inp.path, CssBaseOf(inp.path, inp.config), inp.config)
        IN  /\ Cardinality(LinksTo(out.doc, target)) <= 1
            /\ \A k \in DOMAIN out.rets :
                  IF k = 1 THEN out.rets[k] => LinksTo(inp.doc, target) = {}
                  ELSE ~out.rets[k]

\* The same for documents whose links are all in the head
C12_LinkNoDupInHead ==
    (pc = "link" /\ NoDuplicateLinks(inp.doc)
        /\ \A i \in DOMAIN inp.doc : inp.doc[i].tag = "link" => inp.doc[i].inHead) =>
        LET target == CssLinkHref(inp.path, CssBaseOf(inp.path, inp.config), inp.config)
        IN  /\ Cardinality(LinksTo(out.doc, target)) <= 1
            /\ \A k \in DOMAIN out.rets :
                  IF k = 1 THEN out.rets[k] <=> LinksTo(inp.doc, target) = {}
                  ELSE ~out.rets[k]

-----------------------------------------------------------------------------
(* buildCss (build-css.js) *)

OutputCssSuffix == <<"-", "o", "u", "t", "p", "u", "t", ".", "c", "s", "s">>

\* path.basename(inputFile, '.css').replace(/[^a-zA-Z0-9_.-]/g, '_')
BuildCssBaseName(inputFile) ==
    LET name == Basename(inputFile, CssExt)
    IN  [i \in DOMAIN name |-> IF name[i] \in FilenameSafeChars THEN name[i] ELSE "_"]

\* outputFile
BuildCssOutputFile(inputFile, config) ==
    PathJoin(StripSlashes(config.compiledCssLinkDir),
             BuildCssBaseName(inputFile) \o OutputCssSuffix)

\* globSync('**/*.css', {cwd: dir}) on the CSS files of the disk
CssFilesUnder(fs, dir) ==
    {q \in DOMAIN fs : StartsWith(q, StripSlashes(dir) \o <<"/">>) /\ EndsWith(q, CssExt)}

\* sourceCssFiles
SourceCssFiles(fs, config) ==
    IF config.cssOutputDirStrategy = "relativeToHtml"
    THEN CssFilesUnder(fs, config.distSourceRoot)
    ELSE CssFilesUnder(fs, config.stylesOutputDir)

\* What the tailwindcss command leaves in the output file for an input file
CompiledCss(inputFile) ==
    <<[kind |-> "compiled", from |-> inputFile, index |-> 0, cls |-> <<>>, body |-> <<>>]>>

\* buildCss(): every source CSS file is compiled into its output file; for
\* the files in failing the tailwindcss command throws, which is logged
buildCss(fs, config, failing) ==
    LET sources == SourceCssFiles(fs, config) \ failing
        outputs == {BuildCssOutputFile(f, config) : f \in sources}
    IN  [q \in DOMAIN fs \cup outputs |->
            IF q \in outputs
            THEN CompiledCss(CHOOSE f \in sources : BuildCssOutputFile(f, config) = q)
            ELSE fs[q]]

-----------------------------------------------------------------------------
(* SpecBuildCss: a page is refactored, then the CSS build runs *)

\* No I/O operation of a call on the document throws, no time passes
NoFailures(doc) ==
    [readFail |-> FALSE, cssFail |-> FALSE, bakFail |-> FALSE, htmlFail |-> FALSE,
     fails |-> {}, ticks |-> [k \in 1..Len(ScriptTagsToProcess(doc, 1)) |-> 0]]

InitBuildCss ==
    /\ pc = "page"
    /\ \E path \in LinkPages, config \in PageConfigs :
         /\ inp = [config |-> config, path |-> path]
         /\ \E doc \in PageDocs(config) : htmlFs = [q \in {path} |-> doc]
    /\ cssFs = NoFiles /\ jsFs = NoFiles /\ bakFs = NoFiles /\ distFs = NoDist
    /\ clock = 0
    /\ out = Idle
    /\ last = Idle

\* html-refactor on the page
RefactorPage ==
    /\ pc = "page"
    /\ \E r \in {processHtmlFile(inp.path, inp.config, FALSE, AllFiles, clock,
                                 NoFailures(htmlFs[inp.path]))} :
         /\ htmlFs' = r.fs.html
         /\ cssFs' = r.fs.css
         /\ jsFs' = r.fs.js
         /\ bakFs' = r.fs.bak
         /\ distFs' = r.fs.dist
         /\ clock' = r.clock
         /\ out' = [ret |-> r.ret, css |-> r.css]
    /\ pc' = "refactored"
    /\ UNCHANGED <<inp, last>>

\* build-css after it
BuildCss ==
    /\ pc = "refactored"
    /\ cssFs' = buildCss(cssFs, inp.config, {})
    /\ last' = [op |-> "buildCss", sources |-> SourceCssFiles(cssFs, inp.config)]
    /\ pc' = "built"
    /\ UNCHANGED <<inp, out, htmlFs, jsFs, bakFs, distFs, clock>>

NextBuildCss == RefactorPage \/ BuildCss

SpecBuildCss == InitBuildCss /\ [][NextBuildCss]_vars

\* Where the href of a link of the page points: the href taken from the
\* page's directory
HrefTarget(htmlFilePath, href) ==
    Join(NormalizeParts(<<>>, DirParts(Dirname(htmlFilePath)) \o Split(href, "/")),
         <<"/">>)

\* C13: for a page with extracted CSS, the file the link added to it names is
\* the file the CSS build writes into compiledCssLinkDir for the page's
\* extracted CSS file.
C13_LinkPredictsCompiled ==
    (pc = "built" /\ out.css.path # <<>>) =>
        \A i \in DOMAIN htmlFs[inp.path] :
            LET e == htmlFs[inp.path][i]
            IN  (e.tag = "link"
                 /\ e.href = CssLinkHref(inp.path, CssBaseOf(inp.path, inp.config), inp.config))
                => HrefTarget(inp.path, e.href) = BuildCssOutputFile(out.css.path, inp.config)

-----------------------------------------------------------------------------
(* SpecCssMerge: saveCssFile, of html-refactor.js or of old-html-refactor.js, *)
(* called again and again on one target file                                *)

MaxSaves == 3

\* The CSS extracted from two pages, and what another tool left
CssY1 == <<RuleBlock(<<"p">>, <<"c", "1">>, StyleAB)>>
CssY2 == <<StyleTagBlock(<<"p">>, 0, StyleCD), RuleBlock(<<"p">>, <<"c", "1">>, StyleAB)>>
CssX == <<StyleTagBlock(<<"o">>, 0, StyleCD)>>

NewCss == {CssY1, CssY2}

MergeTarget == CssTargetPath(CssBaseOf(SrcPage, DefaultConfig), SrcPage, DefaultConfig)

\* The target before the first call: absent, empty, with other content, with
\* the new content, and these behind the directives
TargetsBefore ==
    {NoFiles} \cup
    {[q \in {MergeTarget} |-> c] :
        c \in {<<>>, CssX, CssY1, CssX \o <<AppendSeparator>> \o CssY1,
               <<TailwindDirectives>>, <<TailwindDirectives>> \o CssX,
               <<TailwindDirectives>> \o CssY1}}

InitCssMerge ==
    /\ pc = "merge"
    /\ inp \in {[variant |-> v] : v \in {"html-refactor", "old-html-refactor"}}
    /\ cssFs \in TargetsBefore
    /\ htmlFs = NoFiles /\ jsFs = NoFiles /\ bakFs = NoFiles /\ distFs = NoDist
    /\ clock = 0
    /\ out = Idle
    /\ last = [op |-> "none", saves |-> 0, failed |-> FALSE, content |-> <<>>]

SaveCss(cssContent, failed) ==
    /\ pc = "merge"
    /\ last.saves < MaxSaves
    /\ \E r \in {IF inp.variant = "html-refactor"
                 THEN saveCssFile(cssContent, CssBaseOf(SrcPage, DefaultConfig), SrcPage,
                                  DefaultConfig, FALSE, cssFs, failed)
                 ELSE saveCssFileOld(cssContent, MergeTarget, SrcPage, cssFs, clock,
                                     failed)} :
         /\ cssFs' = r.fs
         /\ out' = [path |-> r.path, wrote |-> r.wrote]
         /\ last' = [op |-> "save", saves |-> last.saves + 1, failed |-> r.failed,
                     content |-> cssContent,
                     existed |-> MergeTarget \in DOMAIN cssFs,
                     before |-> IF MergeTarget \in DOMAIN cssFs THEN cssFs[MergeTarget]
                                ELSE <<>>,
                     again |-> last.op = "save" /\ ~last.failed
                               /\ last.content = cssContent]
    /\ UNCHANGED <<pc, inp, htmlFs, jsFs, bakFs, distFs, clock>>

NextCssMerge == \E cssContent \in NewCss, failed \in BOOLEAN : SaveCss(cssContent, failed)

SpecCssMerge == InitCssMerge /\ [][NextCssMerge]_vars

\* The target file after the last call
TargetNow == IF MergeTarget \in DOMAIN cssFs THEN cssFs[MergeTarget] ELSE <<>>

\* The second of two merges of one text in a row writes nothing and leaves
\* the file as it is; a file is rewritten only with other content
SecondMergeWritesNothing ==
    /\ last.again => (~out.wrote /\ TargetNow = last.before)
    /\ (out.wrote /\ last.existed) => TargetNow # last.before

\* C14 as stated: saveCssFile, in html-refactor.js and in old-html-refactor.js,
\* writes nothing when the target file already contains the new CSS text; of
\* two merges of the same text in a row the second writes nothing and leaves
\* the file as it is; the file is rewritten only when the merged content
\* differs.
C14_MergeIdempotent ==
    last.op = "save" =>
        /\ (last.existed /\ Includes(last.before, last.content)) => ~out.wrote
        /\ SecondMergeWritesNothing

\* C14 amended: the same, but old-html-refactor.js writes nothing only when
\* the target holds the new CSS text and the Tailwind directives: a target
\* without them is rewritten with them in front.
C14_MergeIdempotentBehindDirectives ==
    last.op = "save" =>
        /\ (last.existed /\ Includes(last.before, last.content)
            /\ (inp.variant = "old-html-refactor" => HasDirectives(last.before)))
           => ~out.wrote
        /\ SecondMergeWritesNothing

\* The same text merged twice in a row into a file that held other content:
\* the first merge wrote, the second did not
C14_Witness ==
    /\ last.op = "save" /\ last.again /\ last.saves = 2
    /\ ~out.wrote
    /\ Includes(TargetNow, last.content)
    /\ Includes(TargetNow, CssX)
    /\ last.content = CssY2

\* C15: in old-html-refactor.js, when the target exists with content X that
\* does not contain the new CSS Y, the file afterwards holds all of X, then a
\* separator comment, then Y; the directives are put in front only if X has
\* none.
C15_MergeKeepsExisting ==
    (last.op = "save" /\ inp.variant = "old-html-refactor" /\ ~last.failed
        /\ last.existed /\ last.before # <<>> /\ ~Includes(last.before, last.content)) =>
        /\ \E sep \in {TargetNow[i] : i \in DOMAIN TargetNow} :
              /\ sep.kind = "separator"
              /\ Includes(TargetNow, last.before \o <<sep>> \o last.content)
        /\ Cardinality({i \in DOMAIN TargetNow : TargetNow[i].kind = "directives"}) = 1

-----------------------------------------------------------------------------
(* runRefactorProcess *)

\* The output directories the run would make whatever the mode
EnsuredDirs_Always(config, isDryRun, failing) ==
    {StripSlashes(config.stylesOutputDir), StripSlashes(config.distDir),
     StripSlashes(config.jsCentralOutputDir)}

\* The output directories runRefactorProcess makes before it looks for HTML
\* files; failing: the ones whose ensureDir throws (the error is logged)
EnsuredDirs(config, isDryRun, failing) ==
    ((IF config.cssOutputDirStrategy = "centralized" /\ ~isDryRun
      THEN {StripSlashes(config.stylesOutputDir)} ELSE {})
     \cup (IF config.copyToDist /\ ~isDryRun THEN {StripSlashes(config.distDir)} ELSE {})
     \cup (IF config.jsOutputDirStrategy = "centralized" /\ ~isDryRun
           THEN {StripSlashes(config.jsCentralOutputDir)} ELSE {}))
    \ failing

\* What the loop keeps of one processHtmlFile call
FileResult(path, r, io) ==
    [path |-> path, ret |-> r.ret, readFailed |-> io.readFail, failure |-> r.failure,
     writes |-> r.writes]

\* changedFileCount
ChangedFileCount(results) == Cardinality({n \in DOMAIN results : results[n].ret})

-----------------------------------------------------------------------------
(* SpecBatch: one run of runRefactorProcess over two HTML files *)

SrcPageQ == <<"s", "r", "c", "/", "q", ".", "h", "t", "m", "l">>

\* The HTML files the patterns find, in the order glob returns them
BatchFileLists == {<<SrcPage, SrcPageQ>>, <<SrcPageQ, SrcPage>>}

\* A page with nothing to extract, with an inline style, with an inline
\* script, with a <style> element and an inline script
BatchPageDocs ==
    {<<>>, <<Styled(StyleAB)>>, <<ScriptTag(ScriptA, <<>>)>>,
     <<StyleTag(StyleAB), ScriptTag(ScriptB, <<>>)>>}

OutputDirNames ==
    {StripSlashes(DefaultConfig.stylesOutputDir), StripSlashes(DefaultConfig.distDir),
     StripSlashes(DefaultConfig.jsCentralOutputDir)}

InitBatch ==
    /\ pc = "start"
    /\ \E config \in PageConfigs, isDryRun \in BOOLEAN, files \in BatchFileLists,
          docP \in BatchPageDocs, docQ \in BatchPageDocs :
         /\ htmlFs = [q \in {SrcPage, SrcPageQ} |-> IF q = SrcPage THEN docP ELSE docQ]
         /\ inp = [config |-> config, isDryRun |-> isDryRun, files |-> files,
                   before |-> [html |-> htmlFs, css |-> NoFiles, js |-> NoFiles,
                               bak |-> NoFiles, dist |-> NoDist]]
    /\ cssFs = NoFiles /\ jsFs = NoFiles /\ bakFs = NoFiles /\ distFs = NoDist
    /\ clock = 0
    /\ out = [dirs |-> {}, results |-> <<>>]
    /\ last = [op |-> "none", failed |-> 0]

\* runRefactorProcess up to the loop: the output directories are made, the
\* HTML files are looked for; a glob that throws ends the run
StartRun(failing, globFails) ==
    /\ pc = "start"
    /\ out' = [out EXCEPT !.dirs = EnsuredDirs(inp.config, inp.isDryRun, failing)]
    /\ pc' = IF globFails THEN "stopped" ELSE "loop"
    /\ last' = [op |-> "start", failed |-> 0]
    /\ UNCHANGED <<inp, htmlFs, cssFs, jsFs, bakFs, distFs, clock>>

\* One turn of the loop over filesToProcess
ProcessNextFile ==
    /\ pc = "loop"
    /\ Len(out.results) < Len(inp.files)
    /\ LET path == inp.files[Len(out.results) + 1]
       IN  \E io \in ProcessIo(htmlFs[path], clock, last.failed) :
             \E r \in {processHtmlFile(path, inp.config, inp.isDryRun, AllFiles, clock,
                                       io)} :
                /\ htmlFs' = r.fs.html
                /\ cssFs' = r.fs.css
                /\ jsFs' = r.fs.js
                /\ bakFs' = r.fs.bak
                /\ distFs' = r.fs.dist
                /\ clock' = r.clock
                /\ out' = [out EXCEPT !.results = Append(@, FileResult(path, r, io))]
                /\ last' = [op |-> "process",
                            failed |-> last.failed + (IF r.failure THEN 1 ELSE 0)]
    /\ UNCHANGED <<pc, inp>>

\* The loop is over: the run reports its counts and returns
FinishRun ==
    /\ pc = "loop"
    /\ Len(out.results) = Len(inp.files)
    /\ pc' = "done"
    /\ last' = [last EXCEPT !.op = "finish"]
    /\ UNCHANGED <<inp, out, htmlFs, cssFs, jsFs, bakFs, distFs, clock>>

NextBatch ==
    \/ \E failing \in {{}} \cup {{d} : d \in OutputDirNames}, globFails \in BOOLEAN :
          StartRun(failing, globFails)
    \/ ProcessNextFile
    \/ FinishRun

SpecBatch == InitBatch /\ [][NextBatch]_vars

\* C16: in a dry run runRefactorProcess creates, modifies or deletes no HTML,
\* CSS, JS, .bak or dist file and makes no output directory.
C16_DryRunWritesNothing ==
    inp.isDryRun =>
        /\ AllFiles = inp.before
        /\ out.dirs = {}
        /\ \A n \in DOMAIN out.results : out.results[n].writes = <<>>

\* A dry run that is over and reported both files as to be modified
C16_Witness ==
    /\ pc = "done" /\ inp.isDryRun
    /\ ChangedFileCount(out.results) = 2
    /\ inp.config.copyToDist

\* C18: a document whose source cannot be read ends in an error its caller
\* can tell from a normal 'not modified' outcome, and nothing is written for
\* it: what the loop receives for it differs from what it receives for a
\* document that was read and left alone.
C18_ReadFailurePropagated ==
    \A n \in DOMAIN out.results :
        out.results[n].readFailed =>
            /\ out.results[n].writes = <<>>
            /\ \A k \in DOMAIN out.results :
                   (~out.results[k].readFailed /\ ~out.results[k].failure
                    /\ out.results[k].writes = <<>>)
                       => out.results[k].ret # out.results[n].ret

\* C19: when a document of the batch cannot be read the batch is aborted: no
\* later document is processed and the run does not finish as a completed
\* batch.
C19_FailFastBatch ==
    \A n \in DOMAIN out.results :
        out.results[n].readFailed => (Len(out.results) = n /\ pc # "done")

\* C29: with copyToDist, after runRefactorProcess completes without error the
\* dist tree holds for every discovered HTML document a copy equal to its
\* final HTML, also for documents from which nothing was extracted.
C29_DistMirrorComplete ==
    (pc = "done" /\ inp.config.copyToDist /\ ~inp.isDryRun /\ last.failed = 0) =>
        \A n \in DOMAIN inp.files :
            /\ DistPath(inp.files[n], inp.config) \in DOMAIN distFs.html
            /\ distFs.html[DistPath(inp.files[n], inp.config)] = htmlFs[inp.files[n]]

-----------------------------------------------------------------------------
(* SpecPreview: a dry run of processHtmlFile, then the real run *)

\* The decisions a call of processHtmlFile makes: where the CSS goes and what
\* happens to that file, the file and src of every script, the value returned
Decisions(r) ==
    [css |-> r.css,
     scripts |-> [n \in DOMAIN r.items |->
                    [item |-> r.items[n].item, name |-> r.items[n].name,
                     src |-> r.items[n].src]],
     ret |-> r.ret]

NoDecisions == [css |-> [path |-> <<>>, decision |-> "none"], scripts |-> <<>>,
                ret |-> FALSE]

\* A page at the top of the source tree and one in a directory that is not
\* among htmlPrefixesToOmitFromCssName
PagesAbout == <<"p", "a", "g", "e", "s", "/", "a", "b", "o", "u", "t", ".", "h", "t", "m", "l">>

PreviewPages == {SrcPage, PagesAbout}

InitPreview ==
    /\ pc = "page"
    /\ \E config \in PageConfigs, path \in PreviewPages :
         /\ inp = [config |-> config, path |-> path]
         /\ \E doc \in PageDocs(config) : htmlFs = [q \in {path} |-> doc]
         /\ \E disk \in DiskBefore(config) : cssFs = disk.css /\ jsFs = disk.js
    /\ bakFs = NoFiles /\ distFs = NoDist
    /\ clock = 0
    /\ out = [dry |-> NoDecisions, real |-> NoDecisions]
    /\ last = [op |-> "none"]

\* processHtmlFile(htmlFilePath, config, isDryRun) without I/O errors, its
\* decisions kept
Preview(isDryRun) ==
    /\ pc = IF isDryRun THEN "page" ELSE "previewed"
    /\ \E io \in ProcessIo(htmlFs[inp.path], clock, MaxFails) :
         \E r \in {processHtmlFile(inp.path, inp.config, isDryRun, AllFiles, clock, io)} :
            /\ htmlFs' = r.fs.html
            /\ cssFs' = r.fs.css
            /\ jsFs' = r.fs.js
            /\ bakFs' = r.fs.bak
            /\ distFs' = r.fs.dist
            /\ clock' = r.clock
            /\ out' = IF isDryRun THEN [out EXCEPT !.dry = Decisions(r)]
                      ELSE [out EXCEPT !.real = Decisions(r)]
    /\ pc' = IF isDryRun THEN "previewed" ELSE "done"
    /\ last' = [op |-> IF isDryRun THEN "dry" ELSE "real"]
    /\ UNCHANGED inp

NextPreview == \E isDryRun \in BOOLEAN : Preview(isDryRun)

SpecPreview == InitPreview /\ [][NextPreview]_vars

\* C17: the decisions a dry run reports (CSS target path and its
\* create/append/skip decision, the file name and src of each extracted
\* script, the modified verdict) are those of the real run started from the
\* same state.
C17_DryRunPredictsRealRun ==
    pc = "done" => out.dry = out.real

\* C21: the file-name base of a document's extracted scripts is the derived
\* base name of its CSS target (directory part and stem joined by '_'): every
\* script file the real run writes has a name that starts with it.
C21_ScriptNamesUseDerivedBase ==
    pc = "done" =>
        \A n \in DOMAIN out.real.scripts :
            StartsWith(out.real.scripts[n].name,
                       generateCssFileBaseName(inp.path,
                           inp.config.htmlPrefixesToOmitFromCssName,
                           inp.config.maxFilenameLength))

-----------------------------------------------------------------------------
(* SpecDebounce: scheduleBuild calls of the watcher and the build timer *)

BUILD_DEBOUNCE_MS == 400

MaxCalls == 3
TickMs == 200
MaxTicks == 6

\* What the watcher reports
BuildReasons == {<<"a">>, <<"b">>}

\* A clearTimeout that cancels nothing
ClearTimeout_Nothing(timers, id) == timers

\* clearTimeout(id): the timer of that id is no longer pending; an id that is
\* undefined or has fired cancels nothing
ClearTimeout(timers, id) == {t \in timers : t.id # id}

\* setTimeout(() => runBuild(reason), BUILD_DEBOUNCE_MS) at time now
SetTimeout(timers, id, reason, now) ==
    timers \cup {[id |-> id, reason |-> reason, due |-> now + BUILD_DEBOUNCE_MS]}

InitDebounce ==
    /\ pc = "watching"
    /\ inp = Idle
    /\ out = [timers |-> {}, buildDebounceTimeout |-> 0, builds |-> <<>>]
    /\ last = [op |-> "none", calls |-> 0, at |-> 0, reason |-> <<>>, burst |-> TRUE]
    /\ clock = 0
    /\ htmlFs = NoFiles /\ cssFs = NoFiles /\ jsFs = NoFiles /\ bakFs = NoFiles
    /\ distFs = NoDist

\* scheduleBuild(reason)
ScheduleBuild(reason) ==
    /\ last.calls < MaxCalls
    /\ out' = [out EXCEPT
                 !.timers = SetTimeout(ClearTimeout(@, out.buildDebounceTimeout),
                                       last.calls + 1, reason, clock),
                 !.buildDebounceTimeout = last.calls + 1]
    /\ last' = [op |-> "schedule", calls |-> last.calls + 1, at |-> clock,
                reason |-> reason,
                burst |-> last.burst
                          /\ (last.calls > 0 => clock - last.at < BUILD_DEBOUNCE_MS)]
    /\ UNCHANGED <<pc, inp, htmlFs, cssFs, jsFs, bakFs, distFs, clock>>

\* A timer that is due fires: runBuild(reason)
TimerFires ==
    /\ \E t \in out.timers :
          /\ clock >= t.due
          /\ out' = [out EXCEPT
                       !.timers = @ \ {t},
                       !.builds = Append(@, [reason |-> t.reason, at |-> clock,
                                             lastCallAt |-> last.at,
                                             lastReason |-> last.reason])]
    /\ last' = [last EXCEPT !.op = "build"]
    /\ UNCHANGED <<pc, inp, htmlFs, cssFs, jsFs, bakFs, distFs, clock>>

\* Time passes; a timer that is due may fire late
TimePasses ==
    /\ clock + TickMs <= MaxTicks * TickMs
    /\ clock' = clock + TickMs
    /\ last' = [last EXCEPT !.op = "tick"]
    /\ UNCHANGED <<pc, inp, out, htmlFs, cssFs, jsFs, bakFs, distFs>>

NextDebounce ==
    \/ \E reason \in BuildReasons : ScheduleBuild(reason)
    \/ TimerFires
    \/ TimePasses

SpecDebounce == InitDebounce /\ [][NextDebounce]_vars

\* C24: at most one build timer is pending at any time; runBuild runs only
\* when 400 ms have passed with no further scheduleBuild call, with the
\* reason of the last call; calls that each arrive within 400 ms of the one
\* before cause one runBuild in all, carrying the reason of the last call.
C24_DebouncedBuild ==
    /\ Cardinality(out.timers) <= 1
    /\ \A n \in DOMAIN out.builds :
          /\ out.builds[n].at - out.builds[n].lastCallAt >= BUILD_DEBOUNCE_MS
          /\ out.builds[n].reason = out.builds[n].lastReason
    /\ (last.burst /\ last.calls > 0) =>
          /\ Len(out.builds) <= 1
          /\ (out.timers = {}) =>
                /\ Len(out.builds) = 1
                /\ out.builds[1].reason = last.reason

\* Three calls in a row with two reasons, then the one build
C24_Witness ==
    /\ last.burst /\ last.calls = 3
    /\ out.timers = {}
    /\ Len(out.builds) = 1
    /\ out.builds[1].reason = <<"b">>
    /\ out.builds[1].lastCallAt > 0

-----------------------------------------------------------------------------
(* SpecBuildProd: buildProduction, step by step *)

\* What Terser.minify makes of a script
Minified(content) == <<"m", "i", "n", ":">> \o content

\* globSync('**/*.js', { cwd: distDir })
JsFilesToMinify(dist, config) ==
    {q \in DOMAIN dist :
        StartsWith(q, StripSlashes(config.distDir) \o <<"/">>) /\ EndsWith(q, JsExt)}

\* minifyDistJs(config): every .js file under dist is replaced by its
\* minified text; for the files in failing, reading, minifying or writing
\* throws, which is logged
minifyDistJs(dist, config, failing) ==
    [q \in DOMAIN dist |->
        IF q \in JsFilesToMinify(dist, config) \ failing THEN Minified(dist[q])
        ELSE dist[q]]

BuildProdConfig == [DefaultConfig EXCEPT !.copyToDist = TRUE]

\* The default strategies, and CSS beside the page with scripts in one place
BuildProdConfigs ==
    {BuildProdConfig,
     [BuildProdConfig EXCEPT !.cssOutputDirStrategy = "relativeToHtml",
                             !.jsOutputDirStrategy = "centralized"]}

\* One page with a style, with a script, with a style and a script, with two
\* scripts
BuildProdDocs ==
    {<<Styled(StyleAB)>>,
     <<ScriptTag(ScriptA, <<>>)>>,
     <<Styled(StyleAB), ScriptTag(ScriptA, <<>>)>>,
     <<StyleTag(StyleAB), ScriptTag(ScriptA, <<>>), ScriptTag(ScriptB, <<>>)>>}

\* dist before the build: empty, or with a file of an earlier build
StaleDist ==
    {NoDist, [html |-> [q \in {DistPath(SrcPage, BuildProdConfig)} |-> <<>>], js |-> NoFiles]}

InitBuildProd ==
    /\ pc = "start"
    /\ \E config \in BuildProdConfigs : inp = [config |-> config, path |-> SrcPage]
    /\ \E doc \in BuildProdDocs : htmlFs = [q \in {SrcPage} |-> doc]
    /\ \E dist \in StaleDist : distFs = dist
    /\ cssFs = NoFiles /\ jsFs = NoFiles /\ bakFs = NoFiles
    /\ clock = 0
    /\ out = [steps |-> <<>>, jsFailed |-> {}, cssFailed |-> {}, status |-> "running"]
    /\ last = Idle

\* A step of buildProduction that throws: the catch logs PRODUCTION BUILD
\* FAILED and exits with status 1
BuildFails(step) ==
    /\ pc' = "failed"
    /\ out' = [out EXCEPT !.steps = Append(@, step), !.status = "failed"]
    /\ UNCHANGED <<inp, htmlFs, cssFs, jsFs, bakFs, distFs, clock, last>>

\* cleanDistDirectory(config)
CleanDistDirectory(throws) ==
    /\ pc = "start"
    /\ IF throws THEN BuildFails("clean")
       ELSE /\ distFs' = NoDist
            /\ pc' = "cleaned"
            /\ out' = [out EXCEPT !.steps = Append(@, "clean")]
            /\ UNCHANGED <<inp, htmlFs, cssFs, jsFs, bakFs, clock, last>>

\* runHtmlRefactor(): html-refactor.js --yes on the page
RunHtmlRefactor(throws) ==
    /\ pc = "cleaned"
    /\ IF throws THEN BuildFails("refactor")
       ELSE \E r \in {processHtmlFile(inp.path, inp.config, FALSE, AllFiles, clock,
                                      NoFailures(htmlFs[inp.path]))} :
               /\ htmlFs' = r.fs.html
               /\ cssFs' = r.fs.css
               /\ jsFs' = r.fs.js
               /\ bakFs' = r.fs.bak
               /\ distFs' = r.fs.dist
               /\ clock' = r.clock
               /\ pc' = "refactored"
               /\ out' = [out EXCEPT !.steps = Append(@, "refactor")]
               /\ UNCHANGED <<inp, last>>

\* minifyDistJs(config): the errors of single files are caught in the map
\* callback, the step never throws
MinifyDistJs ==
    /\ pc = "refactored"
    /\ \E failing \in SUBSET JsFilesToMinify(distFs.js, inp.config) :
          /\ distFs' = [distFs EXCEPT !.js = minifyDistJs(@, inp.config, failing)]
          /\ out' = [out EXCEPT !.steps = Append(@, "minify"), !.jsFailed = failing]
    /\ pc' = "minified"
    /\ UNCHANGED <<inp, htmlFs, cssFs, jsFs, bakFs, clock, last>>

\* compileAndMinifyCss(): build-css.js is run; it exits with status 1 only
\* for an error outside the per-file try (critical)
CompileAndMinifyCss(critical) ==
    /\ pc = "minified"
    /\ IF critical THEN BuildFails("css")
       ELSE /\ \E failing \in SUBSET SourceCssFiles(cssFs, inp.config) :
                  /\ cssFs' = buildCss(cssFs, inp.config, failing)
                  /\ out' = [out EXCEPT !.steps = Append(@, "css"),
                                        !.cssFailed = failing]
            /\ pc' = "compiled"
            /\ UNCHANGED <<inp, htmlFs, jsFs, bakFs, distFs, clock, last>>

\* optimizeAndCopyImages(config): its errors are caught
OptimizeAndCopyImages ==
    /\ pc = "compiled"
    /\ pc' = "images"
    /\ out' = [out EXCEPT !.steps = Append(@, "images")]
    /\ UNCHANGED <<inp, htmlFs, cssFs, jsFs, bakFs, distFs, clock, last>>

\* copyStaticRootFiles(config), then the report of success
CopyStaticRootFiles(throws) ==
    /\ pc = "images"
    /\ IF throws THEN BuildFails("static")
       ELSE /\ pc' = "done"
            /\ out' = [out EXCEPT !.steps = Append(@, "static"), !.status = "success"]
            /\ UNCHANGED <<inp, htmlFs, cssFs, jsFs, bakFs, distFs, clock, last>>

NextBuildProd ==
    \/ \E throws \in BOOLEAN : CleanDistDirectory(throws)
    \/ \E throws \in BOOLEAN : RunHtmlRefactor(throws)
    \/ MinifyDistJs
    \/ \E critical \in BOOLEAN : CompileAndMinifyCss(critical)
    \/ OptimizeAndCopyImages
    \/ \E throws \in BOOLEAN : CopyStaticRootFiles(throws)

SpecBuildProd == InitBuildProd /\ [][NextBuildProd]_vars

\* C22: a failure to compile one extracted CSS file or to minify one JS file
\* makes that phase fail and buildProduction abort with a failure status
\* before the later steps run; no such file is skipped while the build
\* reports success.
C22_CssAndJsPhasesFailFast ==
    (out.jsFailed # {} \/ out.cssFailed # {}) =>
        /\ pc = "failed"
        /\ out.status = "failed"

-----------------------------------------------------------------------------
(* old-html-refactor.js: extractCssFromHtml with counted class names *)

\* CONFIG.HTML_SOURCE_ROOT_PREFIX_TO_OMIT_FROM_CSS_NAME
OldPrefixesToOmit == <<<<"s", "r", "c", "/", "h", "t", "m", "l", "/">>, <<"s", "r", "c", "/">>>>

\* CONFIG.MAX_BASE_FILENAME_LENGTH
OldMaxBaseFilenameLength == 100

\* path.join(CSS_SRC_FULL_PATH, `${cssFileBaseName}.css`)
OldCssTarget(sourceHtmlFilePath) ==
    <<"s", "r", "c", "/", "a", "s", "s", "e", "t", "s", "/", "s", "t", "y", "l", "e", "s", "/">>
    \o generateCssFileBaseName(sourceHtmlFilePath, OldPrefixesToOmit,
                               OldMaxBaseFilenameLength)
    \o CssExt

\* generateUniqueCssClassName() when uniqueClassCounter is counter - 1
UniqueCssClassName(counter) ==
    <<"e", "x", "t", "r", "a", "c", "t", "e", "d", "-", "i", "n", "l", "i", "n", "e", "-",
      "s", "t", "y", "l", "e", "-">> \o Decimal(counter)

\* inlineStyle.trim().replace(/;\s*$/, '')
WithoutLastSemicolon(style) ==
    LET t == Trim(style)
    IN  IF t # <<>> /\ t[Len(t)] = ";" THEN Prefix(t, Len(t) - 1) ELSE t

\* Step 2 of the old extractCssFromHtml: every element with a style attribute
\* gets the next class name of the process-wide counter
RECURSIVE OldStyleAttrLoop(_, _, _, _)
OldStyleAttrLoop(doc, i, counter, css) ==
    IF i > Len(doc) THEN [doc |-> doc, css |-> css, counter |-> counter]
    ELSE IF ~HasStyleAttr(doc[i]) THEN OldStyleAttrLoop(doc, i + 1, counter, css)
    ELSE OldStyleAttrLoop(
            [doc EXCEPT ![i] = [@ EXCEPT !.class = AddClass(@, UniqueCssClassName(counter + 1)),
                                         !.style = <<>>]],
            i + 1, counter + 1,
            css \o <<RuleBlock(<<>>, UniqueCssClassName(counter + 1),
                               WithoutLastSemicolon(doc[i].style))>>)

\* extractCssFromHtml($, sourceHtmlFilePath, htmlFileRawBaseName) of
\* old-html-refactor.js, with uniqueClassCounter before and after
extractCssFromHtmlOld(doc, htmlFileRawBaseName, counter) ==
    LET tagIdx == {i \in DOMAIN doc : HasStyleTagContent(doc[i])}
        tagCss == [n \in 1..Cardinality(tagIdx) |->
                     StyleTagBlock(htmlFileRawBaseName, 0,
                                   Trim(doc[NthOf(tagIdx, n)].text))]
    IN  Once({[cssContent |-> loop.css, doc |-> loop.doc, counter |-> loop.counter,
               cssModified |-> loop.css # <<>>] :
                 loop \in {OldStyleAttrLoop(RemoveAt(doc, tagIdx), 1, counter, tagCss)}})

-----------------------------------------------------------------------------
(* build-prod.js: processHtmlAndExtractData, the documents refactored at once *)

SrcHtmlAB == <<"s", "r", "c", "/", "h", "t", "m", "l", "/", "a", "/", "b", ".", "h", "t", "m", "l">>
SrcHtmlA_B == <<"s", "r", "c", "/", "h", "t", "m", "l", "/", "a", "_", "b", ".", "h", "t", "m", "l">>
SrcHtmlC == <<"s", "r", "c", "/", "h", "t", "m", "l", "/", "c", ".", "h", "t", "m", "l">>

\* sourceHtmlFiles, as globSync returns them
HtmlPhaseFileLists == {<<SrcHtmlAB, SrcHtmlA_B>>, <<SrcHtmlAB, SrcHtmlC>>}

HtmlPhaseDocs == {<<Styled(StyleAB)>>, <<Styled(StyleCD)>>, <<StyleTag(StyleAB)>>}

\* The state of one performHtmlRefactoringLogic call: the await it is
\* suspended at and the locals of its saveCssFile call
Suspended(at, css, fileExisted, existing) ==
    [at |-> at, css |-> css, fileExisted |-> fileExisted, existing |-> existing]

\* The CSS files as the suspended saveCssFile call saw them
SeenCssFs(proc, target) ==
    IF proc.fileExisted THEN WriteFile(NoFiles, target, proc.existing) ELSE NoFiles

\* saveCssFile from the line after the reads to the call of fs.writeFile
SaveDecision(proc, sourceHtmlFilePath, now) ==
    saveCssFileOld(proc.css, OldCssTarget(sourceHtmlFilePath), sourceHtmlFilePath,
                   SeenCssFs(proc, OldCssTarget(sourceHtmlFilePath)), now, FALSE)

\* sourceHtmlFiles.map(...): every call has run to its first await, readFile
InitHtmlPhase ==
    /\ pc = "htmlPhase"
    /\ inp \in {[files |-> fl] : fl \in HtmlPhaseFileLists}
    /\ htmlFs \in {[q \in {inp.files[1], inp.files[2]} |->
                       IF q = inp.files[1] THEN d1 ELSE d2] :
                   d1 \in HtmlPhaseDocs, d2 \in HtmlPhaseDocs}
    /\ cssFs \in {NoFiles,
                  WriteFile(NoFiles, OldCssTarget(SrcHtmlAB),
                            <<TailwindDirectives,
                              RuleBlock(<<>>, UniqueCssClassName(1), StyleAB)>>)}
    /\ out = [procs |-> [d \in DOMAIN inp.files |-> Suspended("readHtml", <<>>, FALSE, <<>>)],
              counter |-> 0]
    /\ jsFs = NoFiles /\ bakFs = NoFiles /\ distFs = NoDist
    /\ clock = 0
    /\ last = Idle

\* readFile of the document resolves: extractCssFromHtml runs, then
\* saveCssFile up to its await of ensureDir and pathExists
ReadHtml(d) ==
    /\ pc = "htmlPhase" /\ out.procs[d].at = "readHtml"
    /\ \E r \in {extractCssFromHtmlOld(htmlFs[inp.files[d]],
                                       Basename(inp.files[d], HtmlExt), out.counter)} :
         out' = [procs |-> [out.procs EXCEPT ![d] =
                              Suspended(IF r.cssContent = <<>> THEN "done" ELSE "pathExists",
                                        r.cssContent, FALSE, <<>>)],
                 counter |-> r.counter]
    /\ last' = [op |-> "readHtml", d |-> d]
    /\ UNCHANGED <<pc, inp, htmlFs, cssFs, jsFs, bakFs, distFs, clock>>

\* pathExists resolves: an existing target is read next, a missing one is
\* written next
PathExists(d) ==
    /\ pc = "htmlPhase" /\ out.procs[d].at = "pathExists"
    /\ LET fileExisted == OldCssTarget(inp.files[d]) \in DOMAIN cssFs
       IN  out' = [out EXCEPT !.procs[d].fileExisted = fileExisted,
                              !.procs[d].at = IF fileExisted THEN "readFile"
                                              ELSE "writeFile"]
    /\ last' = [op |-> "pathExists", d |-> d]
    /\ UNCHANGED <<pc, inp, htmlFs, cssFs, jsFs, bakFs, distFs, clock>>

\* readFile of the existing target resolves: saveCssFile returns when the
\* styles are present, else it calls writeFile
ReadExisting(d) ==
    /\ pc = "htmlPhase" /\ out.procs[d].at = "readFile"
    /\ LET proc == [out.procs[d] EXCEPT !.existing = cssFs[OldCssTarget(inp.files[d])]]
       IN  out' = [out EXCEPT !.procs[d] =
                      [proc EXCEPT !.at = IF SaveDecision(proc, inp.files[d], clock).wrote
                                          THEN "writeFile" ELSE "done"]]
    /\ last' = [op |-> "readExisting", d |-> d]
    /\ UNCHANGED <<pc, inp, htmlFs, cssFs, jsFs, bakFs, distFs, clock>>

\* writeFile of finalOutput, computed from what the call read
WriteCss(d) ==
    /\ pc = "htmlPhase" /\ out.procs[d].at = "writeFile"
    /\ cssFs' = WriteFile(cssFs, OldCssTarget(inp.files[d]),
                          SaveDecision(out.procs[d], inp.files[d], clock)
                              .fs[OldCssTarget(inp.files[d])])
    /\ out' = [out EXCEPT !.procs[d].at = "done"]
    /\ last' = [op |-> "writeCss", d |-> d]
    /\ UNCHANGED <<pc, inp, htmlFs, jsFs, bakFs, distFs, clock>>

NextHtmlPhase ==
    \/ \E d \in 1..2 : ReadHtml(d)
    \/ \E d \in 1..2 : PathExists(d)
    \/ \E d \in 1..2 : ReadExisting(d)
    \/ \E d \in 1..2 : WriteCss(d)

SpecHtmlPhase == InitHtmlPhase /\ [][NextHtmlPhase]_vars

\* Promise.all has resolved
HtmlPhaseDone == pc = "htmlPhase" /\ \A d \in 1..2 : out.procs[d].at = "done"

\* C23: when the HTML phase of build-prod is over, the CSS target that two
\* documents of the same CSS base name share contains the extracted CSS of
\* both documents
C23_SharedTargetHoldsBoth ==
    (HtmlPhaseDone /\ OldCssTarget(inp.files[1]) = OldCssTarget(inp.files[2]))
        => \A d \in 1..2 :
              out.procs[d].css # <<>>
                  => /\ OldCssTarget(inp.files[d]) \in DOMAIN cssFs
                     /\ Includes(cssFs[OldCssTarget(inp.files[d])], out.procs[d].css)

-----------------------------------------------------------------------------
(* SpecRuns: runs of processHtmlFile on a page that is edited in between *)

MaxStyleEdits == 2

InitRuns ==
    /\ pc = "page"
    /\ \E config \in PageConfigs :
         /\ inp = [config |-> config, path |-> SrcPage]
         /\ \E doc \in PageDocs(config) : htmlFs = [q \in {SrcPage} |-> doc]
    /\ cssFs = NoFiles /\ jsFs = NoFiles /\ bakFs = NoFiles /\ distFs = NoDist
    /\ clock = 0
    /\ out = Idle
    /\ last = [op |-> "none", runs |-> 0, edits |-> 0]

\* A real run on the page in which no I/O operation throws
RunPage ==
    /\ last.runs < MaxRuns
    /\ \E r \in {processHtmlFile(inp.path, inp.config, FALSE, AllFiles, clock,
                                 NoFailures(htmlFs[inp.path]))} :
         /\ htmlFs' = r.fs.html
         /\ cssFs' = r.fs.css
         /\ jsFs' = r.fs.js
         /\ bakFs' = r.fs.bak
         /\ distFs' = r.fs.dist
         /\ clock' = r.clock
         /\ out' = [ret |-> r.ret, css |-> r.css]
    /\ last' = [last EXCEPT !.op = "run", !.runs = @ + 1]
    /\ UNCHANGED <<pc, inp>>

\* Somebody adds an element with an inline style at the end of the page
AddStyledElement(style) ==
    /\ last.edits < MaxStyleEdits
    /\ htmlFs' = [htmlFs EXCEPT ![inp.path] = Append(@, Styled(style))]
    /\ last' = [last EXCEPT !.op = "edit", !.edits = @ + 1]
    /\ UNCHANGED <<pc, inp, out, cssFs, jsFs, bakFs, distFs, clock>>

NextRuns ==
    \/ RunPage
    \/ \E style \in {StyleAB, StyleCD} : AddStyledElement(style)

SpecRuns == InitRuns /\ [][NextRuns]_vars

\* The rule blocks of a CSS text that define the class
RuleBlocksFor(css, cls) == {i \in DOMAIN css : css[i].kind = "rule" /\ css[i].cls = cls}

\* C25: whatever runs and style-adding edits a page has gone through, no CSS
\* target file contains two rule blocks for the same generated class
C25_TargetStaysDeduplicated ==
    \A target \in DOMAIN cssFs :
        \A i \in DOMAIN cssFs[target] :
            cssFs[target][i].kind = "rule"
                => Cardinality(RuleBlocksFor(cssFs[target], cssFs[target][i].cls)) = 1

-----------------------------------------------------------------------------
(* old-html-refactor.js: one process run on a source HTML file *)

\* CONFIG.HTML_SCAN_ROOTS[0]
HtmlScanRoot == <<"s", "r", "c", "/", "h", "t", "m", "l">>

\* CONFIG.HTML_OUTPUT_DIR_FROM_ROOT
HtmlOutputDir == <<"d", "i", "s", "t">>

\* CONFIG.CSS_COMPILED_OUTPUT_DIR_FROM_ROOT
CssCompiledOutputDir == <<"d", "i", "s", "t", "/", "a", "s", "s", "e", "t", "s", "/", "c", "s", "s">>

\* destinationHtmlPathForDist
DestinationHtmlPathForDist(sourceHtmlFilePath) ==
    PathJoin(HtmlOutputDir, Relative(HtmlScanRoot, sourceHtmlFilePath))

\* addCssLinkToHtmlHead($, destinationHtmlPathInDist, cssFileBaseName) of
\* old-html-refactor.js
addCssLinkToHtmlHeadOld(doc, destinationHtmlPathInDist, cssFileBaseName) ==
    LET href == Relative(Dirname(destinationHtmlPathInDist),
                         PathJoin(CssCompiledOutputDir, cssFileBaseName \o OutputCssSuffix))
    IN  IF LinkAlreadyExists(doc, href) THEN doc
        ELSE AppendToHead(doc, LinkTag(href, TRUE))

\* extractJsFromHtmlLogic($, sourceHtmlFilePath, htmlFileRawBaseName)
extractJsFromHtmlLogic(doc, sourceHtmlFilePath, htmlFileRawBaseName) ==
    Once({LET n == Len(scriptTagsToProcess)
              jsFileName(k) == safeJsFileBase
                               \o (IF n > 1 THEN <<"-">> \o Decimal(k) ELSE <<>>) \o JsExt
              rank(i) == CHOOSE k \in 1..n : scriptTagsToProcess[k] = i
          IN  [doc |-> [i \in DOMAIN doc |->
                          IF IsInlineScript(doc[i])
                          THEN ScriptTagExtracted(doc[i], jsFileName(rank(i)))
                          ELSE doc[i]],
               extractedJsData |->
                  [k \in 1..n |->
                      [fileName |-> jsFileName(k),
                       content |-> Trim(doc[scriptTagsToProcess[k]].text),
                       pathInSourceDir |-> PathJoin(Dirname(sourceHtmlFilePath),
                                                    jsFileName(k))]]] :
            scriptTagsToProcess \in {ScriptTagsToProcess(doc, 1)},
            safeJsFileBase \in
                {generateSafeBaseName(sanitizeStringForFilename(htmlFileRawBaseName),
                                      OldMaxBaseFilenameLength)}})

\* performHtmlRefactoringLogic(sourceHtmlFilePath) in a process whose
\* uniqueClassCounter is still 0
performHtmlRefactoringLogic(sourceHtmlFilePath, html, cssFiles, now) ==
    Once({Once({Once({[initialHtmlContent |-> html[sourceHtmlFilePath],
                       processedHtmlContent |-> js.doc,
                       extractedJsFiles |-> js.extractedJsData,
                       cssFiles |-> saved.fs,
                       cssWritten |-> saved.wrote] :
                      js \in {extractJsFromHtmlLogic(
                                 IF saved.path # <<>>
                                 THEN addCssLinkToHtmlHeadOld(
                                          css.doc,
                                          DestinationHtmlPathForDist(sourceHtmlFilePath),
                                          generateCssFileBaseName(
                                              sourceHtmlFilePath, OldPrefixesToOmit,
                                              OldMaxBaseFilenameLength))
                                 ELSE css.doc,
                                 sourceHtmlFilePath, rawBase)}}) :
                saved \in {saveCssFileOld(css.cssContent, OldCssTarget(sourceHtmlFilePath),
                                          sourceHtmlFilePath, cssFiles, now, FALSE)}}) :
          css \in {extractCssFromHtmlOld(html[sourceHtmlFilePath],
                                         Basename(sourceHtmlFilePath, HtmlExt), 0)},
          rawBase \in {Basename(sourceHtmlFilePath, HtmlExt)}})

\* Step 3 of processAndWriteHtmlFile rewrites the source whatever it holds
HtmlRewritten_Always(initialHtmlContent, processedHtmlContent) == TRUE

\* result.processedHtmlContent !== result.initialHtmlContent
HtmlRewritten(initialHtmlContent, processedHtmlContent) ==
    processedHtmlContent # initialHtmlContent

\* A write of the path as chokidar reports it
FsEvent(fs, path) == [event |-> IF path \in DOMAIN fs THEN "change" ELSE "add", path |-> path]

RECURSIVE WriteJsFiles(_, _, _)
\* Step 2 of processAndWriteHtmlFile: each extracted script goes to its file
\* beside the source HTML unless the file holds it already
WriteJsFiles(js, items, k) ==
    IF k > Len(items) THEN js
    ELSE WriteJsFiles(WriteFile(js, items[k].pathInSourceDir, items[k].content), items, k + 1)

\* Steps 2 to 4 of processAndWriteHtmlFile on the result of step 1
ProcessedAndWritten(sourceHtmlFilePath, fs, result) ==
    LET items  == result.extractedJsFiles
        jsWritten == {k \in DOMAIN items :
                        items[k].pathInSourceDir \notin DOMAIN fs.js
                        \/ fs.js[items[k].pathInSourceDir] # items[k].content}
        rewritten == HtmlRewritten(result.initialHtmlContent, result.processedHtmlContent)
        distJs == WriteJsFiles(fs.dist.js,
                     [k \in DOMAIN items |->
                        [pathInSourceDir |->
                            PathJoin(Dirname(DestinationHtmlPathForDist(sourceHtmlFilePath)),
                                     items[k].fileName),
                         content |-> items[k].content]], 1)
    IN  [fs |-> [html |-> IF rewritten
                          THEN WriteFile(fs.html, sourceHtmlFilePath,
                                         result.processedHtmlContent)
                          ELSE fs.html,
                 css |-> result.cssFiles,
                 js |-> WriteJsFiles(fs.js, items, 1),
                 dist |-> [html |-> WriteFile(fs.dist.html,
                                        DestinationHtmlPathForDist(sourceHtmlFilePath),
                                        result.processedHtmlContent),
                           js |-> distJs]],
         written |-> (IF result.cssWritten
                      THEN {FsEvent(fs.css, OldCssTarget(sourceHtmlFilePath))} ELSE {})
                     \cup {FsEvent(fs.js, items[k].pathInSourceDir) : k \in jsWritten}
                     \cup (IF rewritten THEN {FsEvent(fs.html, sourceHtmlFilePath)} ELSE {})]

\* processAndWriteHtmlFile(sourceHtmlFilePath): the files after the call and
\* the source files it wrote
processAndWriteHtmlFile(sourceHtmlFilePath, fs, now) ==
    Once({ProcessedAndWritten(sourceHtmlFilePath, fs, result) :
            result \in {performHtmlRefactoringLogic(sourceHtmlFilePath, fs.html, fs.css,
                                                    now)}})

-----------------------------------------------------------------------------
(* SpecWatch: auto-dev.js watching the sources that html-refactor rewrites *)

MaxExternalEdits == 2
MaxInvocations == 8

\* CSS_SRC_DIR_FROM_ROOT
CssSrcDir == <<"s", "r", "c", "/", "a", "s", "s", "e", "t", "s", "/", "s", "t", "y", "l", "e", "s">>

\* The configuration build-css.js reads in this layout
WatchBuildConfig ==
    [DefaultConfig EXCEPT !.stylesOutputDir = CssSrcDir,
                          !.compiledCssLinkDir = CssCompiledOutputDir,
                          !.cssOutputDirStrategy = "centralized"]

\* What an edit adds to the page
ExternalEdits == {Styled(StyleCD), ScriptTag(ScriptA, <<>>)}

WatchedDocs == {<<>>, <<Styled(StyleAB)>>}

\* fileExtension === '.css' && relativeFilePath.startsWith(CSS_SRC_DIR_FROM_ROOT + path.sep)
IsSourceCss(path) == EndsWith(path, CssExt) /\ StartsWith(path, CssSrcDir \o <<"/">>)

\* fileExtension === '.html' && relativeFilePath.startsWith(HTML_SRC_DIR_FROM_ROOT + path.sep)
IsSourceHtml(path) == EndsWith(path, HtmlExt) /\ StartsWith(path, HtmlScanRoot \o <<"/">>)

\* The watcher is running (ignoreInitial), the startup build is done
InitWatch ==
    /\ pc = "watch"
    /\ inp = [path |-> SrcHtmlC]
    /\ htmlFs \in {[q \in {SrcHtmlC} |-> doc] : doc \in WatchedDocs}
    /\ cssFs = NoFiles /\ jsFs = NoFiles /\ bakFs = NoFiles /\ distFs = NoDist
    /\ clock = 0
    /\ out = [events |-> {}, timers |-> {}, buildDebounceTimeout |-> 0, calls |-> 0,
              builds |-> 0, invocations |-> 0]
    /\ last = [op |-> "none", edits |-> 0]

\* scheduleBuild(reason) on the watcher's timers
Scheduled(w, reason, now) ==
    [w EXCEPT !.timers = SetTimeout(ClearTimeout(@, w.buildDebounceTimeout),
                                    w.calls + 1, reason, now),
              !.buildDebounceTimeout = w.calls + 1,
              !.calls = @ + 1]

\* Somebody saves the source HTML file with one more element
ExternalEdit(e) ==
    /\ last.edits < MaxExternalEdits
    /\ htmlFs' = [htmlFs EXCEPT ![inp.path] = Append(@, e)]
    /\ out' = [out EXCEPT !.events = @ \cup {[event |-> "change", path |-> inp.path]}]
    /\ last' = [op |-> "edit", edits |-> last.edits + 1]
    /\ UNCHANGED <<pc, inp, cssFs, jsFs, bakFs, distFs, clock>>

\* 'add' or 'change' of a source HTML file: html-refactor.js runs on it in a
\* new process, then a build is scheduled
HandleHtmlEvent ==
    /\ out.invocations < MaxInvocations
    /\ \E ev \in out.events :
         /\ IsSourceHtml(ev.path)
         /\ \E r \in {processAndWriteHtmlFile(ev.path, AllFiles, clock)} :
              /\ htmlFs' = r.fs.html
              /\ cssFs' = r.fs.css
              /\ jsFs' = r.fs.js
              /\ distFs' = r.fs.dist
              /\ out' = [Scheduled(out, <<"h">>, clock)
                           EXCEPT !.events = (@ \ {ev}) \cup r.written,
                                  !.invocations = @ + 1]
    /\ last' = [last EXCEPT !.op = "html"]
    /\ UNCHANGED <<pc, inp, bakFs, clock>>

\* 'add' or 'change' of a source CSS file: a build is scheduled
HandleCssEvent ==
    /\ \E ev \in out.events :
         /\ IsSourceCss(ev.path)
         /\ out' = [Scheduled(out, <<"c">>, clock) EXCEPT !.events = @ \ {ev}]
    /\ last' = [last EXCEPT !.op = "css"]
    /\ UNCHANGED <<pc, inp, htmlFs, cssFs, jsFs, bakFs, distFs, clock>>

\* An event of any other file: the handler falls through
HandleOtherEvent ==
    /\ \E ev \in out.events :
         /\ ~IsSourceCss(ev.path) /\ ~IsSourceHtml(ev.path)
         /\ out' = [out EXCEPT !.events = @ \ {ev}]
    /\ last' = [last EXCEPT !.op = "other"]
    /\ UNCHANGED <<pc, inp, htmlFs, cssFs, jsFs, bakFs, distFs, clock>>

\* The build timer fires once BUILD_DEBOUNCE_MS have passed: runBuild compiles
\* the source CSS files into dist
BuildTimerFires ==
    /\ \E t \in out.timers :
         /\ out' = [out EXCEPT !.timers = @ \ {t}, !.builds = @ + 1]
         /\ clock' = IF clock < t.due THEN t.due ELSE clock
    /\ cssFs' = buildCss(cssFs, WatchBuildConfig, {})
    /\ last' = [last EXCEPT !.op = "build"]
    /\ UNCHANGED <<pc, inp, htmlFs, jsFs, bakFs, distFs>>

NextWatch ==
    \/ \E e \in ExternalEdits : ExternalEdit(e)
    \/ HandleHtmlEvent
    \/ HandleCssEvent
    \/ HandleOtherEvent
    \/ BuildTimerFires

SpecWatch == InitWatch /\ [][NextWatch]_vars

\* A source HTML event is pending and html-refactor may still be invoked:
\* the condition under which HandleHtmlEvent can take a step, and every step
\* of it changes out.invocations
HtmlEventDeliverable ==
    /\ out.invocations < MaxInvocations
    /\ \E ev \in out.events : IsSourceHtml(ev.path)

\* The event loop of the watcher process delivers every pending file event
\* and runs every timer: weak fairness of the four handlers, the one of
\* HandleHtmlEvent written out with its enabling condition
SpecWatchFair ==
    /\ SpecWatch
    /\ ([]<>(~HtmlEventDeliverable) \/ []<><<HandleHtmlEvent>>_vars)
    /\ WF_vars(HandleCssEvent)
    /\ WF_vars(HandleOtherEvent)
    /\ WF_vars(BuildTimerFires)

\* C26: in every CSS target file, the rule blocks of one
\* 'extracted-inline-style-N' class all carry the same declarations
C26_CounterClassNamesUnique ==
    \A target \in DOMAIN cssFs :
        \A i, j \in DOMAIN cssFs[target] :
            (/\ cssFs[target][i].kind = "rule"
             /\ cssFs[target][j].kind = "rule"
             /\ cssFs[target][i].cls = cssFs[target][j].cls)
                => cssFs[target][i].body = cssFs[target][j].body

\* No file event is pending and no build timer is pending
Quiescent == pc = "watch" /\ out.events = {} /\ out.timers = {}

\* C30: whenever file events are pending, the watcher reaches a state with
\* no pending event and no pending build timer, and from such a state
\* nothing is written until the next external edit
C30_WatcherQuiesces ==
    /\ (pc = "watch" /\ out.events # {}) ~> Quiescent
    /\ [][Quiescent => last'.op = "edit"]_vars

\* One edit of a page, two html-refactor runs, the build, and all is quiet
C30_Witness ==
    /\ Quiescent
    /\ last.edits = 1
    /\ out.invocations = 2
    /\ out.builds >= 1
    /\ OldCssTarget(inp.path) \in DOMAIN cssFs

=============================================================================
